---------------------------- MODULE Spec2Model ----------------------------
(***************************************************************************)
(* A model of the DOI-Validator repository: text normalisation, DOI        *)
(* harvesting, reference-section location and title matching.              *)
(*                                                                         *)
(* Texts are sequences of characters; a character is a one-element string, *)
(* except for the few non-ASCII code points, which carry their Unicode     *)
(* name.  Indices inside the operators are 1-based (TLA+ sequences); a     *)
(* record's position is the 0-based offset the Python code reports.        *)
(***************************************************************************)
EXTENDS Integers, Sequences, FiniteSets, TLC

VARIABLES
    \* ---- the extraction run (src/app.py, src/documento.py, src/src/doi_extract.py) ----
    phase,          \* "input" | "scanned" | "harvested" | "deduped"
    cur_text,         \* the text of the source at hand
    typed,          \* how many fragments were typed in this run
    sources,        \* how many sources were harvested in this run
    found,          \* extract_dois_from_text(text), once scanned
    harvest_out,          \* extract_dois_robust's sorted list before deduplication
    harvest_uniq,         \* extract_dois_robust(text), once harvested
    all_dois_info,  \* the records of every source so far (app.py, line 258)
    unique_dois,    \* _dedupe_dois(all_dois_info), once deduped
    \* ---- normalize_text driver (src/src/pdf_extract.py) ----
    n_pc,        \* "input" | "done"
    n_text,      \* the text handed to normalize_text (None when absent)
    n_once,      \* normalize_text(n_text)
    n_twice,     \* normalize_text(n_once)
    \* ---- slice_references_section driver (src/src/references.py) ----
    r_pc,        \* "input" | "done"
    r_text,      \* the document's text
    r_typed,     \* how many pieces of it were typed in
    r_min,       \* the min_lines_after of the call
    r_result,    \* slice_references_section(r_text, r_min)
    \* ---- title_match_score driver (src/src/metadata.py) ----
    t_pc,        \* "input" | "done"
    t_a,         \* the bibliographic title (None when absent)
    t_b,         \* the Crossref title (None when absent)
    t_na,        \* how many pieces of t_a were typed in
    t_nb,        \* how many pieces of t_b were typed in
    t_score,     \* title_match_score(t_a, t_b)
    t_score_norm,  \* the score of the two normalised titles
    \* ---- title_match_label driver (src/src/metadata.py) ----
    l_pc,        \* "input" | "done"
    l_score,     \* the score, in ten-thousandths (NoScore for None)
    l_threshold, \* the threshold, in ten-thousandths
    l_label,     \* title_match_label(l_score, l_threshold)
    \* ---- the reference of a DOI (src/src/doi_extract.py) ----
    s_pc, \* "input" | "found" | "picked"
    s_lines, \* the lines of the reference list
    s_doi, \* the DOI looked for
    s_anchor, \* the Crossref title of the call (None when absent)
    s_before, \* the lines taken before the DOI line
    s_after, \* the lines taken after the DOI line
    s_cands, \* find_reference_candidates_for_doi(s_doi, s_lines)
    s_line, \* find_reference_line_for_doi(s_doi, s_lines)
    s_result, \* pick_best_reference_block_for_doi(s_doi, s_lines, s_anchor, s_before, s_after)
    \* ---- extract_title_by_style driver (src/app.py) ----
    e_pc, \* "input" | "done"
    e_ref, \* the reference
    e_typed, \* how many pieces of it were typed in
    e_style, \* the citation style of the call
    e_title, \* extract_title_by_style(e_ref, e_style)
    e_calls, \* the styles whose branch the call ran, in order
    \* ---- extract_bibliographic_title driver (src/src/doi_extract.py) ----
    b_pc, \* "input" | "done"
    b_ref, \* the reference line (None when absent)
    b_typed, \* how many pieces of it were typed in
    b_title, \* extract_bibliographic_title(b_ref)
    \* ---- extract_reference_lines driver (src/src/references.py) ----
    g_pc, \* "input" | "done"
    g_text, \* the text of the references section
    g_typed, \* how many pieces of it were typed in
    g_lines, \* extract_reference_lines(g_text)
    \* ---- the two repair passes side by side (src/src/doi_extract.py, src/documento.py) ----
    p_pc, \* "input" | "done"
    p_text, \* the text given to both repair passes
    p_extraction, \* normalize_text_for_doi_extraction(p_text)
    p_harvest, \* _normalize_for_doi_harvest(p_text)
    \* ---- the rows of a run and their title-match labels (src/app.py) ----
    w_pc, \* "input" | "done" | "exported"
    w_rows, \* the rows of the run, one per unique DOI
    w_include, \* include_crossref
    w_validate, \* validate_title_match
    w_threshold, \* title_threshold, in ten-thousandths
    w_report, \* the counts of make_txt_report for the table
    \* ---- the blend of title_match_score (src/src/metadata.py) ----
    f_pc, \* "input" | "done"
    f_seq, \* the sequence ratio, a fraction <<numerator, denominator>>
    f_jacc, \* the Jaccard overlap, a fraction
    f_blend, \* the blended value
    \* ---- validate_doi_http driver (src/src/doi_validate.py) ----
    v_pc, \* "idle" | "running" | "returned"
    v_later, \* whether the call is made after another one has returned
    v_doi, \* the DOI of the call, as the caller spells it
    v_max, \* max_retries
    v_attempt, \* the attempts already made and retried
    v_heads, \* the HEAD requests of the call
    v_gets, \* the GET requests of the call
    v_last, \* the answers <<head, get>> of the last attempt
    v_hit, \* whether the call found its key in the cache
    v_result, \* what the call returned
    v_cache, \* the cache
    v_before, \* the cache when the call was made
    \* ---- the run of the button: parallel validation ----
    c_pc, \* "idle" | "validating" | "finished" | "stopped"
    c_later, \* a run was made before in the session
    c_unique, \* unique_dois
    c_workers, \* max_workers of the pool
    c_max, \* max_retries
    c_tasks, \* the futures, in the order they were submitted
    c_cache, \* st.session_state["doi_cache"]
    c_cr_cache, \* st.session_state["crossref_cache"]
    c_writes, \* the writes of the run into the doi cache, in their order
    c_done, \* the results of the futures, in the order as_completed gave them
    c_rows, \* rows, once the auxiliary fields are attached
    c_df, \* st.session_state["df"]
    c_df_before, \* the table stored when the button was pressed
    c_lookups, \* the calls of crossref_title_by_doi in the run
    \* ---- the Figshare loop of the run ----
    h_pc, \* "idle" | "looping" | "done"
    h_ids, \* fig_ids
    h_i, \* the ids visited so far
    h_visited, \* the ids of the iterations made, in their order
    h_all, \* all_dois_info
    h_before, \* all_dois_info before the last iteration
    h_last \* what Figshare answered in the last iteration

n_vars == <<n_pc, n_text, n_once, n_twice>>

x_vars == <<phase, cur_text, typed, sources, found, harvest_out, harvest_uniq,
            all_dois_info, unique_dois>>

r_vars == <<r_pc, r_text, r_typed, r_min, r_result>>

t_vars == <<t_pc, t_a, t_b, t_na, t_nb, t_score, t_score_norm>>

l_vars == <<l_pc, l_score, l_threshold, l_label>>

s_vars == <<s_pc, s_lines, s_doi, s_anchor, s_before, s_after, s_cands, s_line, s_result>>

e_vars == <<e_pc, e_ref, e_typed, e_style, e_title, e_calls>>

b_vars == <<b_pc, b_ref, b_typed, b_title>>

g_vars == <<g_pc, g_text, g_typed, g_lines>>

p_vars == <<p_pc, p_text, p_extraction, p_harvest>>

w_vars == <<w_pc, w_rows, w_include, w_validate, w_threshold, w_report>>

f_vars == <<f_pc, f_seq, f_jacc, f_blend>>

v_vars == <<v_pc, v_later, v_doi, v_max, v_attempt, v_heads, v_gets, v_last, v_hit, v_result, v_cache, v_before>>

c_vars == <<c_pc, c_later, c_unique, c_workers, c_max, c_tasks, c_cache, c_cr_cache, c_writes, c_done, c_rows, c_df, c_df_before, c_lookups>>

h_vars == <<h_pc, h_ids, h_i, h_visited, h_all, h_before, h_last>>

vars == <<x_vars, n_vars, r_vars, t_vars, l_vars, s_vars, e_vars, b_vars, g_vars, p_vars, w_vars, f_vars, v_vars, c_vars, h_vars>>

\* what each driver leaves alone
x_others == <<n_vars, r_vars, t_vars, l_vars, s_vars, e_vars, b_vars, g_vars, p_vars, w_vars, f_vars, v_vars, c_vars, h_vars>>
n_others == <<x_vars, r_vars, t_vars, l_vars, s_vars, e_vars, b_vars, g_vars, p_vars, w_vars, f_vars, v_vars, c_vars, h_vars>>
r_others == <<x_vars, n_vars, t_vars, l_vars, s_vars, e_vars, b_vars, g_vars, p_vars, w_vars, f_vars, v_vars, c_vars, h_vars>>
t_others == <<x_vars, n_vars, r_vars, l_vars, s_vars, e_vars, b_vars, g_vars, p_vars, w_vars, f_vars, v_vars, c_vars, h_vars>>
l_others == <<x_vars, n_vars, r_vars, t_vars, s_vars, e_vars, b_vars, g_vars, p_vars, w_vars, f_vars, v_vars, c_vars, h_vars>>
s_others == <<x_vars, n_vars, r_vars, t_vars, l_vars, e_vars, b_vars, g_vars, p_vars, w_vars, f_vars, v_vars, c_vars, h_vars>>
e_others == <<x_vars, n_vars, r_vars, t_vars, l_vars, s_vars, b_vars, g_vars, p_vars, w_vars, f_vars, v_vars, c_vars, h_vars>>
b_others == <<x_vars, n_vars, r_vars, t_vars, l_vars, s_vars, e_vars, g_vars, p_vars, w_vars, f_vars, v_vars, c_vars, h_vars>>
g_others == <<x_vars, n_vars, r_vars, t_vars, l_vars, s_vars, e_vars, b_vars, p_vars, w_vars, f_vars, v_vars, c_vars, h_vars>>
p_others == <<x_vars, n_vars, r_vars, t_vars, l_vars, s_vars, e_vars, b_vars, g_vars, w_vars, f_vars, v_vars, c_vars, h_vars>>
w_others == <<x_vars, n_vars, r_vars, t_vars, l_vars, s_vars, e_vars, b_vars, g_vars, p_vars, f_vars, v_vars, c_vars, h_vars>>
f_others == <<x_vars, n_vars, r_vars, t_vars, l_vars, s_vars, e_vars, b_vars, g_vars, p_vars, w_vars, v_vars, c_vars, h_vars>>
v_others == <<x_vars, n_vars, r_vars, t_vars, l_vars, s_vars, e_vars, b_vars, g_vars, p_vars, w_vars, f_vars, c_vars, h_vars>>
c_others == <<x_vars, n_vars, r_vars, t_vars, l_vars, s_vars, e_vars, b_vars, g_vars, p_vars, w_vars, f_vars, v_vars, h_vars>>
h_others == <<x_vars, n_vars, r_vars, t_vars, l_vars, s_vars, e_vars, b_vars, g_vars, p_vars, w_vars, f_vars, v_vars, c_vars>>

-----------------------------------------------------------------------------
(* Characters *)

NL  == "\n"
CR  == "\r"
FF  == "\f"
TAB == "\t"
SP  == " "
SHY == "U+00AD"         \* SOFT HYPHEN
ACUTE == "U+0301"       \* COMBINING ACUTE ACCENT
E_ACUTE == "U+00E9"     \* LATIN SMALL LETTER E WITH ACUTE
LIG_FI == "U+FB01"      \* LATIN SMALL LIGATURE FI
EN_DASH == "U+2013"     \* EN DASH
LDQUO == "U+201C"       \* LEFT DOUBLE QUOTATION MARK
RDQUO == "U+201D"       \* RIGHT DOUBLE QUOTATION MARK
DQUOTE == "U+0022"      \* QUOTATION MARK
BACKSLASH == "U+005C"   \* REVERSE SOLIDUS
BACKTICK == "U+0060"    \* GRAVE ACCENT

\* Python's absent value, where a text is expected.
None == <<"None">>

Digit == {"0", "1", "2", "3", "4", "5", "6", "7", "8", "9"}
Lower == {"a", "b", "c", "d", "e", "f", "g", "h", "i", "j", "k", "l", "m",
          "n", "o", "p", "q", "r", "s", "t", "u", "v", "w", "x", "y", "z"}
Upper == {"A", "B", "C", "D", "E", "F", "G", "H", "I", "J", "K", "L", "M",
          "N", "O", "P", "Q", "R", "S", "T", "U", "V", "W", "X", "Y", "Z"}
\* The precomposed letters with an acute accent, by base letter (the pairs of
\* the Unicode composition table whose mark is U+0301 and whose base is
\* ASCII).
AcuteLower ==
    [a |-> "U+00E1", c |-> "U+0107", e |-> "U+00E9", g |-> "U+01F5",
     i |-> "U+00ED", k |-> "U+1E31", l |-> "U+013A", m |-> "U+1E3F",
     n |-> "U+0144", o |-> "U+00F3", p |-> "U+1E55", r |-> "U+0155",
     s |-> "U+015B", u |-> "U+00FA", w |-> "U+1E83", y |-> "U+00FD",
     z |-> "U+017A"]
AcuteUpper ==
    [A |-> "U+00C1", C |-> "U+0106", E |-> "U+00C9", G |-> "U+01F4",
     I |-> "U+00CD", K |-> "U+1E30", L |-> "U+0139", M |-> "U+1E3E",
     N |-> "U+0143", O |-> "U+00D3", P |-> "U+1E54", R |-> "U+0154",
     S |-> "U+015A", U |-> "U+00DA", W |-> "U+1E82", Y |-> "U+00DD",
     Z |-> "U+0179"]

AccentedLower == {AcuteLower[b] : b \in DOMAIN AcuteLower}
AccentedUpper == {AcuteUpper[b] : b \in DOMAIN AcuteUpper}
BaseOf(c) ==
    IF c \in AccentedLower THEN CHOOSE b \in DOMAIN AcuteLower : AcuteLower[b] = c
    ELSE CHOOSE b \in DOMAIN AcuteUpper : AcuteUpper[b] = c

\* \s of Python's re on str
Space == {SP, NL, CR, FF, TAB}
\* \w of Python's re on str
Word == Digit \cup Lower \cup Upper \cup AccentedLower \cup AccentedUpper
          \cup {"_", LIG_FI}

UpperToLower ==
    [A |-> "a", B |-> "b", C |-> "c", D |-> "d", E |-> "e", F |-> "f",
     G |-> "g", H |-> "h", I |-> "i", J |-> "j", K |-> "k", L |-> "l",
     M |-> "m", N |-> "n", O |-> "o", P |-> "p", Q |-> "q", R |-> "r",
     S |-> "s", T |-> "t", U |-> "u", V |-> "v", W |-> "w", X |-> "x",
     Y |-> "y", Z |-> "z"]

\* str.lower() on one character
LowerChar(c) ==
    IF c \in Upper THEN UpperToLower[c]
    ELSE IF c \in AccentedUpper THEN AcuteLower[UpperToLower[BaseOf(c)]]
    ELSE c

\* str.lower()
lower(s) == [i \in 1..Len(s) |-> LowerChar(s[i])]

\* s[i], or "" past either end
At(s, i) == IF i >= 1 /\ i <= Len(s) THEN s[i] ELSE ""

\* s[i:j] of 1-based i (inclusive) and j (exclusive)
Slice(s, i, j) == IF j <= i THEN <<>> ELSE SubSeq(s, i, j - 1)

\* the index after the longest run of characters of Class that starts at i
RunEnd(s, i, Class) ==
    IF i > Len(s) THEN i
    ELSE CHOOSE e \in i..(Len(s) + 1) :
             /\ e = Len(s) + 1 \/ s[e] \notin Class
             /\ \A k \in i..(e - 1) : s[k] \in Class

\* the first index of the longest run of characters of Class that ends before i
RunStart(s, i, Class) ==
    IF i <= 1 THEN i
    ELSE CHOOSE b \in 1..i :
             /\ b = 1 \/ s[b - 1] \notin Class
             /\ \A k \in b..(i - 1) : s[k] \in Class

\* str.strip()
strip(s) ==
    LET a == RunEnd(s, 1, Space)
        b == RunStart(s, Len(s) + 1, Space)
    IN  Slice(s, a, b)

RECURSIVE ConcatRange(_, _, _)
\* pieces[lo] \o ... \o pieces[hi], by halves
ConcatRange(pieces, lo, hi) ==
    IF lo > hi THEN <<>>
    ELSE IF lo = hi THEN pieces[lo]
    ELSE LET mid == (lo + hi) \div 2
         IN  ConcatRange(pieces, lo, mid) \o ConcatRange(pieces, mid + 1, hi)

\* "".join(pieces)
Concat(pieces) == ConcatRange(pieces, 1, Len(pieces))

\* str.replace(c, r) for a one-character c and a replacement text r
ReplaceChar(s, c, r) ==
    Concat([k \in 1..Len(s) |-> IF s[k] = c THEN r ELSE <<s[k]>>])

-----------------------------------------------------------------------------
(* src/src/pdf_extract.py *)

\* Unicode compatibility decomposition of one character
Decompose(c) ==
    IF c \in AccentedLower \cup AccentedUpper THEN <<BaseOf(c), ACUTE>>
    ELSE IF c = LIG_FI THEN <<"f", "i">>
    ELSE <<c>>

DecomposeAll(s) == Concat([k \in 1..Len(s) |-> Decompose(s[k])])

\* the letters a combining acute accent composes with
AcuteBases == DOMAIN AcuteLower \cup DOMAIN AcuteUpper

\* Canonical composition of a decomposed text: a combining mark composes
\* with the starter right before it; any character between them (a starter
\* such as the soft hyphen, or an uncomposed mark of the same class) blocks
\* it.
Compose(s) ==
    Concat([k \in 1..Len(s) |->
               IF s[k] = ACUTE /\ At(s, k - 1) \in AcuteBases THEN <<>>
               ELSE IF s[k] \in AcuteBases /\ At(s, k + 1) = ACUTE
               THEN <<IF s[k] \in DOMAIN AcuteLower
                      THEN AcuteLower[s[k]] ELSE AcuteUpper[s[k]]>>
               ELSE <<s[k]>>])

\* unicodedata.normalize("NFKC", s)
NFKC(s) == Compose(DecomposeAll(s))

\* t.replace("\r\n", "\n")
ReplaceCRLF(s) ==
    Concat([k \in 1..Len(s) |->
               IF s[k] = CR /\ At(s, k + 1) = NL THEN <<>> ELSE <<s[k]>>])

normalize_text(t) ==
    LET t0 == IF t = None \/ t = <<>> THEN <<>> ELSE t    \* t or ""
        t1 == NFKC(t0)
        t2 == ReplaceChar(t1, SHY, <<>>)
        t3 == ReplaceChar(ReplaceCRLF(t2), CR, <<NL>>)
    IN  t3

-----------------------------------------------------------------------------
(* src/src/doi_extract.py: repair, clean-up and validation *)

Punct == {".", ",", ";", ":", "(", ")", "[", "]", "{", "}", "<", ">", "/",
          "-", "_", "&", "#", "'", DQUOTE, "|", BACKSLASH, "^", BACKTICK,
          "?", "!", "="}

\* every character the model knows
Chars == Digit \cup Lower \cup Upper \cup Punct \cup Space
           \cup AccentedLower \cup AccentedUpper
           \cup {SHY, ACUTE, LIG_FI, EN_DASH, LDQUO, RDQUO}

\* \S
NonSpace == Chars \ Space

HasNL(s, i, j) == \E k \in i..(j - 1) : s[k] = NL

\* the whitespace run around k holds a line break
InBreakRun(s, k) ==
    HasNL(s, RunStart(s, k + 1, Space), RunEnd(s, k, Space))

\* re.sub(c + r"\s*\n\s*", r, s) for a one-character c that is no
\* whitespace: c and the whole whitespace run after it, when that run holds
\* a line break
SubAfter(s, c, r) ==
    Concat([k \in 1..Len(s) |->
               IF s[k] = c
               THEN (IF HasNL(s, k + 1, RunEnd(s, k + 1, Space))
                     THEN r ELSE <<c>>)
               ELSE IF s[k] \in Space
                       /\ At(s, RunStart(s, k + 1, Space) - 1) = c
                       /\ InBreakRun(s, k)
               THEN <<>>
               ELSE <<s[k]>>])

\* re.sub(r"\s*\n\s*/", "/", s): a whitespace run holding a line break, and
\* the slash after it
SubBeforeSlash(s) ==
    Concat([k \in 1..Len(s) |->
               IF s[k] \in Space
                  /\ At(s, RunEnd(s, k, Space)) = "/"
                  /\ InBreakRun(s, k)
               THEN <<>>
               ELSE <<s[k]>>])

normalize_text_for_doi_extraction(text) ==
    IF text = None \/ text = <<>> THEN <<>>
    ELSE LET t1 == ReplaceChar(text, FF, <<NL>>)
             t2 == SubAfter(t1, "-", <<>>)
             t3 == SubAfter(t2, "/", <<"/">>)
             t4 == SubBeforeSlash(t3)
         IN  t4

RECURSIVE ReplaceStr(_, _, _)
\* str.replace(p, r)
ReplaceStr(s, p, r) ==
    IF Len(s) < Len(p) THEN s
    ELSE IF SubSeq(s, 1, Len(p)) = p
    THEN r \o ReplaceStr(Slice(s, Len(p) + 1, Len(s) + 1), p, r)
    ELSE <<Head(s)>> \o ReplaceStr(Tail(s), p, r)

\* re.sub(r"\s+", "", s)
RemoveSpace(s) == SelectSeq(s, LAMBDA c : c \notin Space)

\* str.rstrip(chars)
rstrip(s, Class) == Slice(s, 1, RunStart(s, Len(s) + 1, Class))

CleanTrailing == {".", ",", ";", ":", ")", "]", "}", "'", DQUOTE}

clean_doi(doi) ==
    LET d1 == normalize_text(doi)
        d2 == RemoveSpace(d1)
        d3 == ReplaceStr(d2, <<"&", "q", "u", "o", "t", ";">>, <<>>)
        d4 == ReplaceStr(d3, <<"&", "#", "3", "4", ";">>, <<>>)
        d5 == ReplaceStr(d4, <<"&", "n", "b", "s", "p", ";">>, <<>>)
        d6 == ReplaceStr(d5, <<"&", "a", "m", "p", ";">>, <<"&">>)
        d7 == ReplaceStr(d6, <<"&", "l", "t", ";">>, <<"<">>)
        d8 == ReplaceStr(d7, <<"&", "g", "t", ";">>, <<">">>)
        \* re.sub(r"[.,;:)\]}\'\"]+$", "", doi)
        d9 == rstrip(d8, CleanTrailing)
        \* re.sub(r"\.{2,}$", "", doi)
        dots == RunStart(d9, Len(d9) + 1, {"."})
        d10 == IF Len(d9) + 1 - dots >= 2 THEN Slice(d9, 1, dots) ELSE d9
    IN  strip(d10)

RECURSIVE DotGroupsEnd(_, _)
\* (?:\.\d+)* from j: the index after the last ".digits" group
DotGroupsEnd(t, j) ==
    IF At(t, j) = "." /\ At(t, j + 1) \in Digit
    THEN DotGroupsEnd(t, RunEnd(t, j + 1, Digit))
    ELSE j

\* 10\.\d{4,9}(?:\.\d+)* at i: the index after it, or 0 when it does not
\* match.  What follows in every pattern is neither a digit nor a ".digit",
\* so only the longest digit runs can match.
RegistrantEnd(t, i) ==
    IF At(t, i) = "1" /\ At(t, i + 1) = "0" /\ At(t, i + 2) = "."
    THEN LET d == RunEnd(t, i + 3, Digit)
         IN  IF d - (i + 3) >= 4 /\ d - (i + 3) <= 9 THEN DotGroupsEnd(t, d) ELSE 0
    ELSE 0

InvalidChars == {"<", ">", DQUOTE, "{", "}", "|", BACKSLASH, "^", BACKTICK, SP}

is_valid_doi_format(doi) ==
    LET r == RegistrantEnd(doi, 1)
        \* .+$ : one character or more, none a line break; $ also matches
        \* before a line break that ends the string
        last == IF At(doi, Len(doi)) = NL THEN Len(doi) ELSE Len(doi) + 1
        matched == /\ r # 0
                   /\ At(doi, r) = "/"
                   /\ last > r + 1
                   /\ ~HasNL(doi, r + 1, last)
        suffix == strip(Slice(doi, r + 1, Len(doi) + 1))   \* doi.split("/", 1)[1].strip()
    IN  /\ matched
        /\ Len(suffix) >= 2
        /\ \A k \in 1..Len(doi) : doi[k] \notin InvalidChars

-----------------------------------------------------------------------------
(* src/src/doi_extract.py: DOI_PATTERNS and extract_dois_from_text *)

\* (?:(?![\"&\'<>])\S)
SuffixChar == NonSpace \ {DQUOTE, "&", "'", "<", ">"}

\* a match: the whole match [start, end) and its group 1 [gs, ge)
NoMatch == [start |-> 0, gs |-> 0, ge |-> 0, end |-> 0]

\* the literal lit (in lower case) at i, under re.IGNORECASE
LitAt(t, i, lit) == \A k \in 1..Len(lit) : LowerChar(At(t, i + k - 1)) = lit[k]

\* 10\.\d{4,9}(?:\.\d+)*\/(?:(?![\"&\'<>])\S)+ at i: the index after the
\* longest match, or 0
CoreEnd(t, i) ==
    LET r == RegistrantEnd(t, i)
    IN  IF r = 0 \/ At(t, r) # "/" THEN 0
        ELSE LET e == RunEnd(t, r + 1, SuffixChar)
             IN  IF e > r + 1 THEN e ELSE 0

\* doi:\s*(core)
Pattern1At(t, i) ==
    IF LitAt(t, i, <<"d", "o", "i", ":">>)
    THEN LET g == RunEnd(t, i + 4, Space)
             e == CoreEnd(t, g)
         IN  IF e = 0 THEN NoMatch ELSE [start |-> i, gs |-> g, ge |-> e, end |-> e]
    ELSE NoMatch

\* https?://(?:dx\.)?doi\.org/(core)
Pattern2At(t, i) ==
    IF LitAt(t, i, <<"h", "t", "t", "p">>)
    THEN LET a == IF LowerChar(At(t, i + 4)) = "s" THEN i + 5 ELSE i + 4
             b == a + 3
             c == IF LitAt(t, b, <<"d", "x", ".">>) THEN b + 3 ELSE b
             g == c + 8
             e == CoreEnd(t, g)
         IN  IF /\ LitAt(t, a, <<":", "/", "/">>)
                /\ LitAt(t, c, <<"d", "o", "i", ".", "o", "r", "g", "/">>)
                /\ e # 0
             THEN [start |-> i, gs |-> g, ge |-> e, end |-> e]
             ELSE NoMatch
    ELSE NoMatch

\* (?:^|[\s\(\[{,;:])(core): ^ is the start of the text (no re.MULTILINE)
Pattern3At(t, i) ==
    IF i = 1 /\ CoreEnd(t, 1) # 0
    THEN [start |-> 1, gs |-> 1, ge |-> CoreEnd(t, 1), end |-> CoreEnd(t, 1)]
    ELSE IF At(t, i) \in Space \cup {"(", "[", "{", ",", ";", ":"} /\ CoreEnd(t, i + 1) # 0
    THEN [start |-> i, gs |-> i + 1, ge |-> CoreEnd(t, i + 1), end |-> CoreEnd(t, i + 1)]
    ELSE NoMatch

\* [\[\(\{](core)[\]\)\}]: the suffix backs off to the last closing bracket
\* of its run
Pattern4At(t, i) ==
    IF At(t, i) \in {"[", "(", "{"}
    THEN LET e == CoreEnd(t, i + 1)
             s1 == RegistrantEnd(t, i + 1) + 1      \* first suffix character
             closes == IF e = 0 THEN {}
                       ELSE {k \in (s1 + 1)..(e - 1) : t[k] \in {"]", ")", "}"}}
         IN  IF closes = {} THEN NoMatch
             ELSE LET k == CHOOSE x \in closes : \A y \in closes : y <= x
                  IN  [start |-> i, gs |-> i + 1, ge |-> k, end |-> k + 1]
    ELSE NoMatch

\* (?:DOI|doi|Doi)[\s:]+(core)
Pattern5At(t, i) ==
    IF LitAt(t, i, <<"d", "o", "i">>)
    THEN LET g == RunEnd(t, i + 3, Space \cup {":"})
             e == CoreEnd(t, g)
         IN  IF g > i + 3 /\ e # 0
             THEN [start |-> i, gs |-> g, ge |-> e, end |-> e]
             ELSE NoMatch
    ELSE NoMatch

NumPatterns == 5

\* f"Patr\u00f3n {idx}"
PatternLabel == <<"Patron 1", "Patron 2", "Patron 3", "Patron 4", "Patron 5">>

DOI_PATTERNS(idx, t, i) ==
    CASE idx = 1 -> Pattern1At(t, i)
      [] idx = 2 -> Pattern2At(t, i)
      [] idx = 3 -> Pattern3At(t, i)
      [] idx = 4 -> Pattern4At(t, i)
      [] idx = 5 -> Pattern5At(t, i)

RECURSIVE FindIter(_, _, _)
\* re.finditer(DOI_PATTERNS[idx], t): the leftmost matches, none overlapping
FindIter(idx, t, i) ==
    IF i > Len(t) THEN <<>>
    ELSE LET m == DOI_PATTERNS(idx, t, i)
         IN  IF m.end = 0 THEN FindIter(idx, t, i + 1)
             ELSE <<m>> \o FindIter(idx, t, m.end)

max_context == 60

Max(a, b) == IF a >= b THEN a ELSE b
Min(a, b) == IF a <= b THEN a ELSE b

\* t[start:end].replace("\n", " ").strip() around the match [ms, me)
Context(t, ms, me) ==
    LET start == Max(0, (ms - 1) - max_context)
        end == Min(Len(t), (me - 1) + max_context)
    IN  strip(ReplaceChar(Slice(t, start + 1, end + 1), NL, <<SP>>))

RECURSIVE InsertByPosition(_, _)
InsertByPosition(sorted, d) ==
    IF sorted = <<>> THEN <<d>>
    ELSE IF Head(sorted).position <= d.position
    THEN <<Head(sorted)>> \o InsertByPosition(Tail(sorted), d)
    ELSE <<d>> \o sorted

RECURSIVE SortByPosition(_)
\* list.sort(key=position): stable
SortByPosition(s) ==
    IF s = <<>> THEN <<>>
    ELSE InsertByPosition(SortByPosition(SubSeq(s, 1, Len(s) - 1)), s[Len(s)])

\* the check without the format test
KeepCandidate_unchecked(doi) == doi # <<>>

\* the check of line 102 (and of line 169 of documento.py)
KeepCandidate(doi) == doi # <<>> /\ is_valid_doi_format(doi)

RECURSIVE RecordsOfPattern(_, _, _)
\* the body of the loop over one pattern's matches
RecordsOfPattern(idx, t, ms) ==
    IF ms = <<>> THEN <<>>
    ELSE LET m == Head(ms)
             raw == Slice(t, m.gs, m.ge)
             doi == clean_doi(raw)
         IN  (IF KeepCandidate(doi)
              THEN <<[doi |-> doi, raw |-> raw, pattern |-> PatternLabel[idx],
                      position |-> m.start - 1,
                      context |-> Context(t, m.start, m.end)]>>
              ELSE <<>>) \o RecordsOfPattern(idx, t, Tail(ms))

RECURSIVE RecordsFromPattern(_, _)
\* the loop over DOI_PATTERNS, from pattern idx on
RecordsFromPattern(idx, t) ==
    IF idx > NumPatterns THEN <<>>
    ELSE RecordsOfPattern(idx, t, FindIter(idx, t, 1)) \o RecordsFromPattern(idx + 1, t)

extract_dois_from_text(text) ==
    LET repaired == normalize_text_for_doi_extraction(text)
        t == normalize_text(repaired)
    IN  SortByPosition(RecordsFromPattern(1, t))

-----------------------------------------------------------------------------
(* src/documento.py: the robust harvest *)

RECURSIVE SubHyphenBreak(_)
\* re.sub(r"(\w)-\s*\n\s*(\w)", r"\1\2", s)
SubHyphenBreak(s) ==
    IF s = <<>> THEN <<>>
    ELSE LET e == RunEnd(s, 3, Space)
         IN  IF /\ Head(s) \in Word
                /\ At(s, 2) = "-"
                /\ HasNL(s, 3, e)
                /\ At(s, e) \in Word
             THEN <<s[1], s[e]>> \o SubHyphenBreak(Slice(s, e + 1, Len(s) + 1))
             ELSE <<Head(s)>> \o SubHyphenBreak(Tail(s))

RECURSIVE SubLineBreak(_)
\* re.sub(r"(\S)\s*\n\s*(\S)", r"\1 \2", s)
SubLineBreak(s) ==
    IF s = <<>> THEN <<>>
    ELSE LET e == RunEnd(s, 2, Space)
         IN  IF /\ Head(s) \notin Space
                /\ HasNL(s, 2, e)
                /\ e <= Len(s)
             THEN <<s[1], SP, s[e]>> \o SubLineBreak(Slice(s, e + 1, Len(s) + 1))
             ELSE <<Head(s)>> \o SubLineBreak(Tail(s))

RECURSIVE SubSlash(_)
\* re.sub(r"\s*/\s*", "/", s)
SubSlash(s) ==
    IF s = <<>> THEN <<>>
    ELSE LET a == RunEnd(s, 1, Space)
         IN  IF At(s, a) = "/"
             THEN <<"/">> \o SubSlash(Slice(s, RunEnd(s, a + 1, Space), Len(s) + 1))
             ELSE IF a > 1 THEN Slice(s, 1, a) \o SubSlash(Slice(s, a, Len(s) + 1))
             ELSE <<Head(s)>> \o SubSlash(Tail(s))

_normalize_for_doi_harvest(t) ==
    IF t = None \/ t = <<>> THEN <<>>
    ELSE LET t1 == ReplaceChar(t, SHY, <<>>)
             t2 == SubHyphenBreak(t1)
             t3 == SubLineBreak(t2)
             t4 == SubSlash(t3)
         IN  t4

\* [-._;()/:A-Z0-9] under re.IGNORECASE
RobustSuffixChar == {"-", ".", "_", ";", "(", ")", "/", ":"} \cup Upper \cup Lower \cup Digit

\* (10\.\d{4,9}(?:\.\d+)*\s*/\s*[-._;()/:A-Z0-9]+) at i
_DOI_REGEX_ROBUST(t, i) ==
    LET r == RegistrantEnd(t, i)
        a == RunEnd(t, r, Space)
        b == RunEnd(t, a + 1, Space)
        e == RunEnd(t, b, RobustSuffixChar)
    IN  IF r # 0 /\ At(t, a) = "/" /\ e > b
        THEN [start |-> i, gs |-> i, ge |-> e, end |-> e]
        ELSE NoMatch

RECURSIVE RobustFindIter(_, _)
\* _DOI_REGEX_ROBUST.finditer(t)
RobustFindIter(t, i) ==
    IF i > Len(t) THEN <<>>
    ELSE LET m == _DOI_REGEX_ROBUST(t, i)
         IN  IF m.end = 0 THEN RobustFindIter(t, i + 1)
             ELSE <<m>> \o RobustFindIter(t, m.end)

_TRAILING_PUNCT == {".", ",", ";", ":", ")", "]", "}", ">", DQUOTE, "'"}

RECURSIVE RobustRecords(_, _)
\* the loop of lines 166-174
RobustRecords(t, ms) ==
    IF ms = <<>> THEN <<>>
    ELSE LET m == Head(ms)
             raw == rstrip(strip(Slice(t, m.gs, m.ge)), _TRAILING_PUNCT)
             doi == rstrip(clean_doi(raw), _TRAILING_PUNCT)
         IN  (IF KeepCandidate(doi)
              THEN <<[doi |-> doi, raw |-> raw, pattern |-> "Robusto",
                      position |-> m.start - 1,
                      context |-> Context(t, m.start, m.end)]>>
              ELSE <<>>) \o RobustRecords(t, Tail(ms))

\* lines 164-176: the sorted list `out`, before deduplication
robust_out(text) ==
    LET t == _normalize_for_doi_harvest(normalize_text(text))
    IN  SortByPosition(RobustRecords(t, RobustFindIter(t, 1)))

RECURSIVE robust_uniq_from(_, _, _)
robust_uniq_from(rest, seen, uniq) ==
    IF rest = <<>> THEN uniq
    ELSE LET d == Head(rest)
             k == lower(d.doi)
         IN  IF k \in seen THEN robust_uniq_from(Tail(rest), seen, uniq)
             ELSE robust_uniq_from(Tail(rest), seen \cup {k}, Append(uniq, d))

\* lines 177-185: the first record of each lowercased DOI
robust_uniq(out) == robust_uniq_from(out, {}, <<>>)

extract_dois_robust(text) == robust_uniq(robust_out(text))

-----------------------------------------------------------------------------
(* src/app.py: the merge of the sources' records *)

RECURSIVE dedupe_from(_, _, _)
dedupe_from(rest, seen, out) ==
    IF rest = <<>> THEN out
    ELSE LET d == Head(rest)
             k == lower(d.doi)
         IN  IF k = <<>> \/ k \in seen THEN dedupe_from(Tail(rest), seen, out)
             ELSE dedupe_from(Tail(rest), seen \cup {k}, Append(out, d))

\* the merge without the sort by position
_dedupe_dois_unsorted(dois_info) == dedupe_from(dois_info, {}, <<>>)

_dedupe_dois(dois_info) == dedupe_from(SortByPosition(dois_info), {}, <<>>)

-----------------------------------------------------------------------------
(* src/src/references.py *)

\* a literal of a pattern: one class of (lowercased) characters per place
Lit(w) == [k \in 1..Len(w) |-> {w[k]}]
\* \s+ inside a pattern
Gap == <<Space>>

RECURSIVE MatchAtoms(_, _, _)
\* the index after the match of the atoms at i, ignoring case; 0 without one
MatchAtoms(s, i, atoms) ==
    IF atoms = <<>> THEN i
    ELSE IF Head(atoms) = Space THEN
        (IF RunEnd(s, i, Space) > i
         THEN MatchAtoms(s, RunEnd(s, i, Space), Tail(atoms))
         ELSE 0)
    ELSE IF LowerChar(At(s, i)) \in Head(atoms)
         THEN MatchAtoms(s, i + 1, Tail(atoms))
         ELSE 0

\* ^\s*(?:\d+[\.\)]\s*)?  : the index where the heading's words must start
AfterNumbering(s) ==
    LET a == RunEnd(s, 1, Space)
        d == RunEnd(s, a, Digit)
    IN  IF d > a /\ At(s, d) \in {".", ")"} THEN RunEnd(s, d + 1, Space) ELSE a

\* \s*[:\-]?\s*$  from q on
HeadingTail(s, q) ==
    LET w == RunEnd(s, q, Space)
        c == IF At(s, w) \in {":", "-"} THEN w + 1 ELSE w
    IN  RunEnd(s, c, Space) = Len(s) + 1

\* a pattern of the shape of REF_START and REF_END, matched at the start of s
HeadingMatch(s, phrases) ==
    \E ph \in phrases :
        LET q == MatchAtoms(s, AfterNumbering(s), ph)
        IN  q # 0 /\ HeadingTail(s, q)

RefStartPhrases ==
    { Lit(<<"r", "e", "f", "e", "r", "e", "n", "c", "e", "s">>),
      Lit(<<"b", "i", "b", "l", "i", "o", "g", "r", "a", "p", "h", "y">>),
      Lit(<<"w", "o", "r", "k", "s">>) \o Gap \o Lit(<<"c", "i", "t", "e", "d">>),
      Lit(<<"l", "i", "t", "e", "r", "a", "t", "u", "r", "e">>) \o Gap
          \o Lit(<<"c", "i", "t", "e", "d">>),
      Lit(<<"r", "e", "f", "e", "r", "e", "n", "c", "i", "a", "s">>),
      Lit(<<"b", "i", "b", "l", "i", "o", "g", "r", "a", "f">>)
          \o <<{"i", AcuteLower["i"]}>> \o Lit(<<"a">>),
      Lit(<<"r", "e", "f", "e", "r", "e", "n", "c", "i", "a", "s">>) \o Gap
          \o Lit(<<"b", "i", "b", "l", "i", "o", "g", "r">>)
          \o <<{"a", AcuteLower["a"]}>> \o Lit(<<"f", "i", "c", "a", "s">>),
      Lit(<<"o", "b", "r", "a", "s">>) \o Gap
          \o Lit(<<"c", "i", "t", "a", "d", "a", "s">>),
      Lit(<<"l", "i", "t", "e", "r", "a", "t", "u", "r", "a">>) \o Gap
          \o Lit(<<"c", "i", "t", "a", "d", "a">>) }

RefEndPhrases ==
    { Lit(<<"a", "p", "p", "e", "n", "d", "i", "x">>),
      Lit(<<"a", "p">>) \o <<{"e", AcuteLower["e"]}>>
          \o Lit(<<"n", "d", "i", "c", "e">>),
      Lit(<<"a", "n", "n", "e", "x">>),
      Lit(<<"a", "n", "e", "x", "o">>),
      Lit(<<"a", "c", "k", "n", "o", "w", "l", "e", "d", "g", "e", "m", "e",
            "n", "t", "s">>),
      Lit(<<"a", "c", "k", "n", "o", "w", "l", "e", "d", "g", "m", "e", "n",
            "t", "s">>),
      Lit(<<"a", "g", "r", "a", "d", "e", "c", "i", "m", "i", "e", "n", "t",
            "o", "s">>),
      Lit(<<"s", "u", "p", "p", "l", "e", "m", "e", "n", "t", "a", "r", "y">>),
      Lit(<<"m", "a", "t", "e", "r", "i", "a", "l">>) \o Gap
          \o Lit(<<"s", "u", "p", "l", "e", "m", "e", "n", "t", "a", "r", "i",
                   "o">>),
      Lit(<<"f", "u", "n", "d", "i", "n", "g">>),
      Lit(<<"f", "i", "n", "a", "n", "c", "i", "a", "m", "i", "e", "n", "t",
            "o">>),
      Lit(<<"a", "u", "t", "h", "o", "r">>) \o Gap
          \o Lit(<<"c", "o", "n", "t", "r", "i", "b", "u", "t", "i", "o", "n",
                   "s">>),
      Lit(<<"c", "o", "n", "t", "r", "i", "b", "u", "c", "i">>)
          \o <<{"o", AcuteLower["o"]}>> \o Lit(<<"n">>) \o Gap
          \o Lit(<<"d", "e">>) \o Gap
          \o Lit(<<"a", "u", "t", "o", "r", "e", "s">>),
      Lit(<<"c", "o", "n", "f", "l", "i", "c", "t">>) \o Gap
          \o Lit(<<"o", "f">>) \o Gap
          \o Lit(<<"i", "n", "t", "e", "r", "e", "s", "t">>),
      Lit(<<"c", "o", "n", "f", "l", "i", "c", "t", "o">>) \o Gap
          \o Lit(<<"d", "e">>) \o Gap
          \o Lit(<<"i", "n", "t", "e", "r">>)
          \o <<{"e", AcuteLower["e"]}>> \o Lit(<<"s">>) }

\* REF_START.match(s)
REF_START(s) == HeadingMatch(s, RefStartPhrases)

\* REF_END.match(s)
REF_END(s) == HeadingMatch(s, RefEndPhrases)

\* the characters str.splitlines() ends a line at
LineBreaks == {NL, CR, FF}

RECURSIVE splitlines_from(_, _)
splitlines_from(s, i) ==
    IF i > Len(s) THEN <<>>
    ELSE LET e == RunEnd(s, i, Chars \ LineBreaks)
             n == IF At(s, e) = CR /\ At(s, e + 1) = NL THEN e + 2 ELSE e + 1
         IN  <<Slice(s, i, e)>> \o splitlines_from(s, n)

\* str.splitlines()
splitlines(s) == splitlines_from(s, 1)

RECURSIVE join(_, _)
\* sep.join(parts)
join(sep, parts) ==
    IF parts = <<>> THEN <<>>
    ELSE IF Len(parts) = 1 THEN parts[1]
    ELSE parts[1] \o sep \o join(sep, Tail(parts))

\* Python's None, where a line index is expected
NoLine == -1

\* the default of slice_references_section's min_lines_after
min_lines_after_default == 12

\* the least length of a section's text
MinSectionLen == 250

RECURSIVE first_heading(_, _)
\* the loop over enumerate(lines): the 0-based index of the first line at or
\* after i that REF_START matches
first_heading(lines, i) ==
    IF i >= Len(lines) THEN NoLine
    ELSE IF REF_START(strip(lines[i + 1])) THEN i
    ELSE first_heading(lines, i + 1)

\* the distance test left out
FarEnough_always(j, start, min_lines_after) == TRUE

\* if (j - start) >= min_lines_after
FarEnough(j, start, min_lines_after) == j - start >= min_lines_after

RECURSIVE first_terminator(_, _, _, _)
\* the loop over range(start + 1, len(lines)): the first line at or after j
\* that ends the section, len(lines) without one
first_terminator(lines, start, j, min_lines_after) ==
    IF j >= Len(lines) THEN Len(lines)
    ELSE IF REF_END(strip(lines[j + 1])) /\ FarEnough(j, start, min_lines_after)
         THEN j
    ELSE first_terminator(lines, start, j + 1, min_lines_after)

\* the length test left out
TooShort_never(ref_text) == FALSE

\* if len(ref_text) < 250
TooShort(ref_text) == Len(ref_text) < MinSectionLen

\* the tuple (text, start, end) it returns
slice_references_section(full_text, min_lines_after) ==
    LET lines == splitlines(full_text)
        start == first_heading(lines, 0)
        end == first_terminator(lines, start, start + 1, min_lines_after)
        ref_text == strip(join(<<NL>>, SubSeq(lines, start + 1, end)))
    IN  IF start = NoLine THEN <<full_text, NoLine, NoLine>>
        ELSE IF TooShort(ref_text) THEN <<full_text, NoLine, NoLine>>
        ELSE <<ref_text, start, end>>

-----------------------------------------------------------------------------
(* src/src/references.py: extract_reference_lines *)

\* the least length of a line of the reference list
MinReferenceLineLen == 35

\* len(ln) >= 35
LongEnough_more(ln) == Len(ln) > MinReferenceLineLen
LongEnough(ln) == Len(ln) >= MinReferenceLineLen

\* the two filters on the trimmed lines
KeptLines(lines) ==
    LET trimmed == [k \in 1..Len(lines) |-> strip(lines[k])]
        Kept(ln) == LongEnough(ln) /\ ~REF_START(ln)
    IN  SelectSeq(trimmed, Kept)

extract_reference_lines(ref_text) ==
    CHOOSE r \in {KeptLines(splitlines(t)) : t \in {normalize_text(ref_text)}} : TRUE

-----------------------------------------------------------------------------
(* src/src/metadata.py: title normalisation and the match score *)

\* unicodedata.combining(ch) # 0
Combining == {ACUTE}

\* the characters of [\u2010-\u2014\u2212] that the model knows
UnicodeDashes == {EN_DASH}

\* what a title keeps: [a-z0-9\s\-]
TitleChars == Lower \cup Digit \cup Space \cup {"-"}

\* NFKD, then the combining marks dropped
_strip_accents(s) ==
    IF s = <<>> THEN <<>>
    ELSE SelectSeq(DecomposeAll(s), LAMBDA ch : ch \notin Combining)

\* re.sub(r"[\u2010\u2011\u2012\u2013\u2014\u2212]", "-", t)
FoldDashes(t) ==
    [k \in 1..Len(t) |-> IF t[k] \in UnicodeDashes THEN "-" ELSE t[k]]

\* re.sub(r"[^a-z0-9\s\-]", " ", t)
BlankOthers(t) ==
    [k \in 1..Len(t) |-> IF t[k] \in TitleChars THEN t[k] ELSE SP]

\* re.sub(r"\s+", " ", t): one blank for each run of whitespace
CollapseSpace(t) ==
    Concat([k \in 1..Len(t) |->
               IF t[k] \notin Space THEN <<t[k]>>
               ELSE IF At(t, k - 1) \in Space THEN <<>>
               ELSE <<SP>>])

\* (t or "")
OrEmpty(t) == IF t = None THEN <<>> ELSE t

\* the whitespace collapsed before the other characters are blanked
normalize_title_collapse_first(t) ==
    strip(BlankOthers(CollapseSpace(
        FoldDashes(lower(_strip_accents(strip(OrEmpty(t))))))))

normalize_title(t) ==
    strip(CollapseSpace(BlankOthers(
        FoldDashes(lower(_strip_accents(strip(OrEmpty(t))))))))

\* the length of the longest common run of a from i (before ahi) and b from j
\* (before bhi)
CommonRun(a, b, i, j, ahi, bhi) ==
    LET most == Min(ahi - i, bhi - j)
    IN  CHOOSE k \in 0..most :
            /\ \A d \in 0..(k - 1) : a[i + d] = b[j + d]
            /\ k = most \/ a[i + k] # b[j + k]

\* SequenceMatcher.find_longest_match without junk: the longest block common
\* to a[alo:ahi] and b[blo:bhi], the one earliest in a and then earliest in b
find_longest_match(a, b, alo, ahi, blo, bhi) ==
    LET sizes == {CommonRun(a, b, i, j, ahi, bhi) :
                      i \in alo..(ahi - 1), j \in blo..(bhi - 1)}
        size == CHOOSE k \in sizes : \A x \in sizes : x <= k
        besti == CHOOSE i \in alo..(ahi - 1) :
                     /\ \E j \in blo..(bhi - 1) :
                            CommonRun(a, b, i, j, ahi, bhi) = size
                     /\ \A h \in alo..(i - 1) : \A j \in blo..(bhi - 1) :
                            CommonRun(a, b, h, j, ahi, bhi) # size
        bestj == CHOOSE j \in blo..(bhi - 1) :
                     /\ CommonRun(a, b, besti, j, ahi, bhi) = size
                     /\ \A h \in blo..(j - 1) :
                            CommonRun(a, b, besti, h, ahi, bhi) # size
    IN  IF alo >= ahi \/ blo >= bhi THEN <<alo, blo, 0>>
        ELSE <<besti, bestj, size>>

RECURSIVE MatchedSize(_, _, _, _, _, _)
\* the sum of the sizes of SequenceMatcher.get_matching_blocks()
MatchedSize(a, b, alo, ahi, blo, bhi) ==
    LET m == find_longest_match(a, b, alo, ahi, blo, bhi)
    IN  IF m[3] = 0 THEN 0
        ELSE m[3] + MatchedSize(a, b, alo, m[1], blo, m[2])
                  + MatchedSize(a, b, m[1] + m[3], ahi, m[2] + m[3], bhi)

\* SequenceMatcher(None, a, b).ratio() as the fraction <<numerator, denominator>>
\* (texts under 200 characters: the automatic junk heuristic is off)
ratio(a, b) ==
    IF Len(a) + Len(b) = 0 THEN <<1, 1>>
    ELSE <<2 * MatchedSize(a, b, 1, Len(a) + 1, 1, Len(b) + 1), Len(a) + Len(b)>>

\* set(s.split())
TokenSet(s) ==
    {Slice(s, i, RunEnd(s, i, NonSpace)) :
        i \in {k \in 1..Len(s) :
                  s[k] \notin Space /\ (k = 1 \/ s[k - 1] \in Space)}}

\* len(ta & tb) / max(1, len(ta | tb)), 0.0 when both sets are empty
jaccard(ta, tb) ==
    IF ta = {} /\ tb = {} THEN <<0, 1>>
    ELSE <<Cardinality(ta \cap tb), Max(1, Cardinality(ta \cup tb))>>

\* fractions: order, the larger of two, the sum of two, the mean of two
FracLeq(x, y) == x[1] * y[2] <= y[1] * x[2]
FracMax(x, y) == IF FracLeq(x, y) THEN y ELSE x
FracMean_sum(x, y) == <<x[1] * y[2] + y[1] * x[2], x[2] * y[2]>>
FracMean(x, y) == <<x[1] * y[2] + y[1] * x[2], 2 * x[2] * y[2]>>

\* max(seq, jacc, (seq + jacc) / 2.0)
Blend(seq, jacc) == FracMax(FracMax(seq, jacc), FracMean(seq, jacc))

\* round(x, 4) in ten-thousandths, ties to the even neighbour
round4(x) ==
    LET q == (x[1] * 10000) \div x[2]
        r == (x[1] * 10000) % x[2]
    IN  IF 2 * r < x[2] THEN q
        ELSE IF 2 * r > x[2] THEN q + 1
        ELSE IF q % 2 = 0 THEN q ELSE q + 1

\* Python's None, where a score is expected
NoScore == -1

\* if not bibliographic_title or not crossref_title
Missing(t) == t = None \/ t = <<>>

\* the test of the normalised titles left out
EmptyNormalized_never(a, b) == FALSE

\* if not a or not b
EmptyNormalized(a, b) == a = <<>> \/ b = <<>>

\* the score in ten-thousandths, NoScore for None
title_match_score(bibliographic_title, crossref_title) ==
    LET a == normalize_title(bibliographic_title)
        b == normalize_title(crossref_title)
        seq == ratio(a, b)
        jacc == jaccard(TokenSet(a), TokenSet(b))
        score == Blend(seq, jacc)
    IN  IF Missing(bibliographic_title) \/ Missing(crossref_title) THEN NoScore
        ELSE IF EmptyNormalized(a, b) THEN NoScore
        ELSE round4(score)

\* the comparison made strict
IsMatch_strict(score, threshold) == score > threshold

\* score >= threshold
IsMatch(score, threshold) == score >= threshold

title_match_label(score, threshold) ==
    IF score = NoScore THEN "unknown"
    ELSE IF IsMatch(score, threshold) THEN "match" ELSE "mismatch"

-----------------------------------------------------------------------------
(* src/src/doi_extract.py: the title of a reference *)

\* the least element of a set of numbers
LeastOf(S) == CHOOSE x \in S : \A y \in S : x <= y

\* ends[k] is the index after the match that starts at k, 0 when none does:
\* the first start of a match from i on, 0 when there is none
FirstMatch(ends, i) ==
    LET starts == {k \in i..Len(ends) : ends[k] # 0}
    IN  IF starts = {} THEN 0 ELSE LeastOf(starts)

RECURSIVE Spans(_, _)
\* the leftmost matches from i on, none overlapping, as <<start, end>>
Spans(ends, i) ==
    LET k == FirstMatch(ends, i)
    IN  IF k = 0 THEN <<>> ELSE <<<<k, ends[k]>>>> \o Spans(ends, ends[k])

\* re.sub(pattern, r, s) for a constant text r and a pattern that matches no
\* empty text, its matches given by ends
ReSub(s, ends, r) ==
    LET sp == Spans(ends, 1)
        n == Len(sp)
    IN  Concat([j \in 1..(2 * n + 1) |->
                   IF j % 2 = 0 THEN r
                   ELSE Slice(s,
                              IF j = 1 THEN 1 ELSE sp[(j - 1) \div 2][2],
                              IF j = 2 * n + 1 THEN Len(s) + 1
                              ELSE sp[(j + 1) \div 2][1])])

\* \b before a word character at i
WordStartsAt(s, i) == At(s, i) \in Word /\ At(s, i - 1) \notin Word

\* \b after a word character before i
WordEndsBefore(s, i) == At(s, i - 1) \in Word /\ At(s, i) \notin Word

\* https?://\S+ at i, ignoring case: the index after the match, or 0
UrlEnd(s, i) ==
    LET p == IF ~LitAt(s, i, <<"h", "t", "t", "p">>) THEN 0
             ELSE IF LitAt(s, i + 4, <<"s", ":", "/", "/">>) THEN i + 8
             ELSE IF LitAt(s, i + 4, <<":", "/", "/">>) THEN i + 7
             ELSE 0
        e == RunEnd(s, p, NonSpace)
    IN  IF p # 0 /\ e > p THEN e ELSE 0

\* \bdoi:\s*\S+ at i, ignoring case: the index after the match, or 0
DoiTokenEnd(s, i) ==
    LET w == RunEnd(s, i + 4, Space)
        e == RunEnd(s, w, NonSpace)
    IN  IF WordStartsAt(s, i) /\ LitAt(s, i, <<"d", "o", "i", ":">>) /\ e > w
        THEN e ELSE 0

\* \b10\.\d{4,9}(?:\.\d+)*\/\S+ at i: the index after the match, or 0
BareDoiEnd(s, i) ==
    LET r == RegistrantEnd(s, i)
        e == RunEnd(s, r + 1, NonSpace)
    IN  IF WordStartsAt(s, i) /\ r # 0 /\ At(s, r) = "/" /\ e > r + 1
        THEN e ELSE 0

\* the three re.sub that take URLs and DOIs out of the line, then the
\* whitespace collapsed
WithoutUrls(ln) == ReSub(ln, [i \in 1..Len(ln) |-> UrlEnd(ln, i)], <<>>)
WithoutDoiTokens(ln) == ReSub(ln, [i \in 1..Len(ln) |-> DoiTokenEnd(ln, i)], <<>>)
WithoutBareDois(ln) == ReSub(ln, [i \in 1..Len(ln) |-> BareDoiEnd(ln, i)], <<>>)

\* Each step's text is computed once (a bound variable holds a value) and
\* handed to the next.
WithoutLinks(ln) ==
    CHOOSE l4 \in {strip(CollapseSpace(WithoutBareDois(l2))) :
                       l2 \in {WithoutDoiTokens(l1) :
                                   l1 \in {WithoutUrls(l0) : l0 \in {ln}}}} : TRUE

\* \(\s*n\.d\.\s*\) at i, ignoring case: the index after the match, or 0
NdEnd(s, i) ==
    LET w == RunEnd(s, i + 1, Space)
        c == RunEnd(s, w + 4, Space)
    IN  IF At(s, i) = "(" /\ LitAt(s, w, <<"n", ".", "d", ".">>) /\ At(s, c) = ")"
        THEN c + 1 ELSE 0

\* \(\s*(?:19|20)\d{2}[a-z]?\s*\) at i, ignoring case: the index after the
\* match, or 0
YearEnd(s, i) ==
    LET w == RunEnd(s, i + 1, Space)
        l == IF At(s, w + 4) \in Lower \cup Upper THEN w + 5 ELSE w + 4
        c == RunEnd(s, l, Space)
    IN  IF /\ At(s, i) = "("
           /\ <<At(s, w), At(s, w + 1)>> \in {<<"1", "9">>, <<"2", "0">>}
           /\ At(s, w + 2) \in Digit
           /\ At(s, w + 3) \in Digit
           /\ At(s, c) = ")"
        THEN c + 1 ELSE 0

\* \(\s*((?:19|20)\d{2}[a-z]?|n\.d\.)\s*\)\s* at i, ignoring case: the index
\* after the match, or 0
DateEnd(s, i) ==
    LET e == IF YearEnd(s, i) # 0 THEN YearEnd(s, i) ELSE NdEnd(s, i)
    IN  IF e = 0 THEN 0 ELSE RunEnd(s, e, Space)

\* \bRetrieved\s+from\b at i, ignoring case: the index after the match, or 0
RetrievedEnd(s, i) ==
    LET w == RunEnd(s, i + 9, Space)
    IN  IF /\ WordStartsAt(s, i)
           /\ LitAt(s, i, <<"r", "e", "t", "r", "i", "e", "v", "e", "d">>)
           /\ w > i + 9
           /\ LitAt(s, w, <<"f", "r", "o", "m">>)
           /\ WordEndsBefore(s, w + 4)
        THEN w + 4 ELSE 0

\* re.search: the start of the first match, given where matches start, 0
\* when there is none
SearchStart(starts) == IF starts = {} THEN 0 ELSE LeastOf(starts)

RECURSIVE SplitFrom(_, _, _)
\* the pieces of s from i on between the occurrences of the character c
SplitFrom(s, c, i) ==
    LET at == {k \in i..Len(s) : s[k] = c}
    IN  IF at = {} THEN <<Slice(s, i, Len(s) + 1)>>
        ELSE <<Slice(s, i, LeastOf(at))>> \o SplitFrom(s, c, LeastOf(at) + 1)

\* [p.strip() for p in s.split(".") if p.strip()]
DotParts(s) ==
    LET pieces == SplitFrom(s, ".", 1)
        stripped == [j \in 1..Len(pieces) |-> strip(pieces[j])]
        NonEmpty(p) == p # <<>>
    IN  SelectSeq(stripped, NonEmpty)

\* the length a title may have
TitleLength(t) == Len(t) >= 8 /\ Len(t) <= 300

\* the length a title in quotation marks may have
QuotedTitleLength(t) == Len(t) >= 8

\* [\.\:\;\-–—\s], the punctuation skipped after the date
AfterDate == {".", ":", ";", "-", EN_DASH} \cup Space

\* [\"“”]
Quotes == {DQUOTE, LDQUO, RDQUO}

\* the title after the date in parentheses that starts at m, None when the
\* rule gives none
\* rest with the punctuation after the date skipped
SkipAfterDate(rest) ==
    strip(Slice(rest, RunEnd(rest, 1, AfterDate), Len(rest) + 1))

\* re.split(r"\bRetrieved\s+from\b", rest, maxsplit=1)[0].strip()
BeforeRetrieved(rest) ==
    LET r == SearchStart({i \in 1..Len(rest) : RetrievedEnd(rest, i) # 0})
    IN  IF r = 0 THEN strip(rest) ELSE strip(Slice(rest, 1, r))

\* the first part of rest that is a title, else rest if it is one
FirstPartOrAll(rest) ==
    LET parts == DotParts(rest)
    IN  IF parts # <<>> /\ TitleLength(parts[1]) THEN parts[1]
        ELSE IF TitleLength(rest) THEN rest
        ELSE None

TitleAfterDate(ln, m) ==
    CHOOSE t \in {FirstPartOrAll(rest) :
                      rest \in {BeforeRetrieved(rest1) :
                          rest1 \in {SkipAfterDate(rest0) :
                              rest0 \in {Slice(ln, DateEnd(ln, m), Len(ln) + 1)}}}} :
        TRUE

\* the title in quotation marks, [\"“”](.+?)[\"“”], None
\* when the rule gives none; ln holds no line break
QuotedTitle(ln) ==
    LET open == {i \in 1..Len(ln) : ln[i] \in Quotes}
        close == {k \in 1..Len(ln) : ln[k] \in Quotes /\ k >= LeastOf(open) + 2}
        cand == strip(Slice(ln, LeastOf(open) + 1, LeastOf(close)))
    IN  IF open # {} /\ close # {} /\ QuotedTitleLength(cand) THEN cand ELSE None

\* the text between the first and the second full stop, None when the rule
\* gives none
SegmentTitle(ln) ==
    LET parts == DotParts(ln)
    IN  IF Len(parts) >= 3 /\ TitleLength(parts[2]) THEN parts[2] ELSE None

\* the title in the line ln, once repaired, normalised and without links
TitleIn(ln) ==
    LET bracket == {k \in 1..Len(ln) : ln[k] = "["}
        before_bracket == strip(Slice(ln, 1, LeastOf(bracket)))
        m == SearchStart({i \in 1..Len(ln) : DateEnd(ln, i) # 0})
        after == IF m = 0 THEN None ELSE TitleAfterDate(ln, m)
    IN  IF /\ \E i \in 1..Len(ln) : NdEnd(ln, i) # 0
           /\ bracket # {}
           /\ \E k \in 1..Len(ln) : ln[k] = "]"
           /\ TitleLength(before_bracket)
        THEN before_bracket
        ELSE IF after # None THEN after
        ELSE IF QuotedTitle(ln) # None THEN QuotedTitle(ln)
        ELSE SegmentTitle(ln)

extract_bibliographic_title(reference_line) ==
    IF reference_line = None \/ reference_line = <<>> THEN None
    ELSE CHOOSE t \in {TitleIn(ln) :
                          ln \in {WithoutLinks(normalize_text(
                              normalize_text_for_doi_extraction(reference_line)))}} :
             TRUE

-----------------------------------------------------------------------------
(* src/src/doi_extract.py: the reference of a DOI *)

\* sub in s
Contains(s, sub) ==
    \E t \in {s} : \E u \in {sub} :
        \E i \in 1..(Len(t) - Len(u) + 1) : SubSeq(t, i, i + Len(u) - 1) = u

\* re.sub(r"\s+", "", (doi or "").lower())
doi_norm(doi) == RemoveSpace(lower(OrEmpty(doi)))

\* normalize_text(ln_rep) of a line of the reference list
RepairedLine(ln) == normalize_text(normalize_text_for_doi_extraction(OrEmpty(ln)))

\* doi_norm in ln_norm
InLine_unrepaired(doi, ln) == Contains(RemoveSpace(lower(OrEmpty(ln))), doi_norm(doi))
InLine(doi, ln) == Contains(RemoveSpace(lower(RepairedLine(ln))), doi_norm(doi))

\* the candidates are pairs <<index from 0, line>>
find_reference_candidates_for_doi(doi, reference_lines) ==
    IF doi_norm(doi) = <<>> THEN <<>>
    ELSE LET all == [i \in 1..Len(reference_lines) |->
                        <<i - 1, RepairedLine(reference_lines[i])>>]
             Hit(c) == InLine(doi, reference_lines[c[1] + 1])
         IN  SelectSeq(all, Hit)

find_reference_line_for_doi(doi, reference_lines) ==
    LET hits == {i \in 1..Len(reference_lines) : InLine(doi, reference_lines[i])}
    IN  IF doi_norm(doi) = <<>> \/ hits = {} THEN None
        ELSE RepairedLine(reference_lines[LeastOf(hits)])

before_default == 5
after_default == 1

build_reference_block_around_index(reference_lines, idx, before, after) ==
    LET start == Max(0, idx - before)
        end == Min(Len(reference_lines), idx + after + 1)
        block == join(<<SP>>, SubSeq(reference_lines, start + 1, end))
    IN  strip(CollapseSpace(normalize_text(
            normalize_text_for_doi_extraction(block))))

\* len(s.split())
WordCount(s) ==
    Cardinality({i \in 1..Len(s) : s[i] \notin Space /\ At(s, i - 1) \notin NonSpace})

\* \bword\b at i
WordAt(s, i, word) ==
    WordStartsAt(s, i) /\ LitAt(s, i, word) /\ WordEndsBefore(s, i + Len(word))

\* \bpp\b|\bvol\b|\bno\b|\bissue\b|\bpages?\b
VolumeWords == {<<"p", "p">>, <<"v", "o", "l">>, <<"n", "o">>,
                <<"i", "s", "s", "u", "e">>, <<"p", "a", "g", "e">>,
                <<"p", "a", "g", "e", "s">>}

\* re.fullmatch(r"(19|20)\d{2}([,;]\s*)?(pp\.?)?", low)
YearOnly(low) ==
    LET a == IF At(low, 5) \in {",", ";"} THEN RunEnd(low, 6, Space) ELSE 5
        b == IF LitAt(low, a, <<"p", "p">>)
             THEN (IF At(low, a + 2) = "." THEN a + 3 ELSE a + 2)
             ELSE a
    IN  /\ <<At(low, 1), At(low, 2)>> \in {<<"1", "9">>, <<"2", "0">>}
        /\ At(low, 3) \in Digit
        /\ At(low, 4) \in Digit
        /\ b = Len(low) + 1

\* the filter on the title s, its whitespace collapsed
PlausibleCollapsed(s) ==
    /\ WordCount(s) >= 5
    /\ ~(/\ \E low \in {lower(s)} :
               \E i \in 1..Len(low) : \E w \in VolumeWords : WordAt(low, i, w)
         /\ WordCount(s) < 8)
    /\ ~YearOnly(lower(s))

_is_plausible_title_for_selection(t) ==
    IF t = None \/ t = <<>> THEN FALSE
    ELSE \E s \in {strip(CollapseSpace(t))} : PlausibleCollapsed(s)

\* min(1.0, len(bib_title) / 200.0), in ten-thousandths
LengthScore(bib_title) == Min(10000, 50 * Len(bib_title))

\* what the call gives: the tuple it returns, or the exception it raises
Returned(block, title, score) ==
    [raised |-> "", block |-> block, title |-> title, score |-> score]
Raised(exception) ==
    [raised |-> exception, block |-> <<>>, title |-> None, score |-> 0]

RECURSIVE SelectFrom(_, _, _, _)
\* the loop over the candidates' blocks from the k-th on.  title_match_score
\* is no name of the module doi_extract (its imports are re, typing and
\* normalize_text), so the call of it raises NameError.
SelectFrom(blocks, k, cr, best) ==
    IF k > Len(blocks) THEN best
    ELSE CHOOSE r \in
             {IF ~_is_plausible_title_for_selection(bib_title)
              THEN SelectFrom(blocks, k + 1, cr, best)
              ELSE IF cr # <<>> THEN Raised("NameError")
              ELSE SelectFrom(blocks, k + 1, cr,
                              IF LengthScore(bib_title) > best.score
                              THEN Returned(blocks[k], bib_title,
                                            LengthScore(bib_title))
                              ELSE best) :
                  bib_title \in {extract_bibliographic_title(blocks[k])}} : TRUE

\* the block of every candidate, in the candidates' order
BlocksOf(reference_lines, cands, before, after) ==
    [k \in 1..Len(cands) |->
        build_reference_block_around_index(reference_lines, cands[k][1],
                                           before, after)]

\* what the call gives after the loop: the first candidate's block and
\* title when the loop kept no block
FirstBlockIfNone(best, blocks) ==
    IF best.raised # "" THEN best
    ELSE IF best.block = <<>>
    THEN Returned(blocks[1], extract_bibliographic_title(blocks[1]), 0)
    ELSE best

pick_best_reference_block_for_doi(doi, reference_lines, crossref_title, before, after) ==
    LET cands == find_reference_candidates_for_doi(doi, reference_lines)
        cr == normalize_text(OrEmpty(crossref_title))
    IN  IF cands = <<>> THEN Returned(<<>>, None, 0)
        ELSE CHOOSE r \in
                 UNION {{FirstBlockIfNone(best, blocks) :
                            best \in {SelectFrom(blocks, 1, cr,
                                                 Returned(<<>>, None, 0))}} :
                        blocks \in {BlocksOf(reference_lines, cands,
                                             before, after)}} :
                 TRUE

-----------------------------------------------------------------------------
(* src/app.py: extract_title_by_style *)

\* the greatest element of a set of numbers
GreatestOf(S) == CHOOSE x \in S : \A y \in S : y <= x

\* \s*(.+?) from h, the group ending before one of the positions of ends and
\* holding no line break: <<start, end>> of the group, <<0, 0>> when nothing
\* matches.  \s* gives whitespace back to the group only when it must.
LazyGroup(s, h, ends) ==
    LET w == RunEnd(s, h, Space)
        EndsFrom(p) == {d \in ends : d > p /\ ~HasNL(s, p, d)}
        starts == {p \in h..w : EndsFrom(p) # {}}
    IN  IF starts = {} THEN <<0, 0>>
        ELSE <<GreatestOf(starts), LeastOf(EndsFrom(GreatestOf(starts)))>>

\* the group of the first match of a pattern "head \s* (.+?) end": heads[i]
\* is the index after the head that starts at i (0 when none does); None
\* when the pattern matches nowhere
GroupAfterHead(s, heads, ends) ==
    LET matching == {i \in 1..Len(s) :
                        heads[i] # 0 /\ LazyGroup(s, heads[i], ends)[1] # 0}
        g == LazyGroup(s, heads[LeastOf(matching)], ends)
    IN  IF matching = {} THEN None ELSE Slice(s, g[1], g[2])

\* \((\d{4}[a-z]?)\)\. at i, ignoring case: the index after it, or 0
ParenYearEnd(s, i) ==
    LET l == IF At(s, i + 5) \in Lower \cup Upper THEN i + 6 ELSE i + 5
    IN  IF /\ At(s, i) = "("
           /\ \A k \in 1..4 : At(s, i + k) \in Digit
           /\ At(s, l) = ")"
           /\ At(s, l + 1) = "."
        THEN l + 2 ELSE 0

\* (\d{4})\. at i: the index after it, or 0
BareYearEnd(s, i) ==
    IF (\A k \in 0..3 : At(s, i + k) \in Digit) /\ At(s, i + 4) = "."
    THEN i + 5 ELSE 0

\* \s+ and then a character of Class, at j
SpaceThen(s, j, Class) ==
    At(s, j) \in Space /\ At(s, RunEnd(s, j, Space)) \in Class

\* \s+ and then the literal lit ignoring case, at j
SpaceThenLit(s, j, lit) ==
    At(s, j) \in Space /\ LitAt(s, RunEnd(s, j, Space), lit)

\* the positions of \.(?:\s+[A-Z]|\s+http|$), ignoring case
ApaEnds(s) ==
    {d \in 1..Len(s) :
        /\ s[d] = "."
        /\ \/ SpaceThen(s, d + 1, Lower \cup Upper)
           \/ SpaceThenLit(s, d + 1, <<"h", "t", "t", "p">>)
           \/ d = Len(s)}

\* the positions of (?:\s+Vol\.|\s+pp\.|\s+\d+\(|\.|http), ignoring case
ApaAltEnds(s) ==
    {e \in 1..Len(s) :
        \/ SpaceThenLit(s, e, <<"v", "o", "l", ".">>)
        \/ SpaceThenLit(s, e, <<"p", "p", ".">>)
        \/ /\ SpaceThen(s, e, Digit)
           /\ At(s, RunEnd(s, RunEnd(s, e, Space), Digit)) = "("
        \/ s[e] = "."
        \/ LitAt(s, e, <<"h", "t", "t", "p">>)}

\* the positions of \.(?:\s+[A-Z]|$)
ChicagoEnds(s) ==
    {d \in 1..Len(s) :
        /\ s[d] = "."
        /\ \/ SpaceThen(s, d + 1, Upper)
           \/ d = Len(s)}

\* the literal lit at i
ExactAt(s, i, lit) == \A k \in 1..Len(lit) : At(s, i + k - 1) = lit[k]

\* https?://\S+ at i: the index after the match, or 0
UrlEndExact(s, i) ==
    LET p == IF ~ExactAt(s, i, <<"h", "t", "t", "p">>) THEN 0
             ELSE IF ExactAt(s, i + 4, <<"s", ":", "/", "/">>) THEN i + 8
             ELSE IF ExactAt(s, i + 4, <<":", "/", "/">>) THEN i + 7
             ELSE 0
    IN  IF p # 0 /\ RunEnd(s, p, NonSpace) > p THEN RunEnd(s, p, NonSpace) ELSE 0

\* doi:\s*\S+ at i, ignoring case: the index after the match, or 0
DoiPrefixEnd(s, i) ==
    LET w == RunEnd(s, i + 4, Space)
    IN  IF LitAt(s, i, <<"d", "o", "i", ":">>) /\ RunEnd(s, w, NonSpace) > w
        THEN RunEnd(s, w, NonSpace) ELSE 0

StripUrls(t) == ReSub(t, [i \in 1..Len(t) |-> UrlEndExact(t, i)], <<>>)
StripDoiPrefixed(t) == ReSub(t, [i \in 1..Len(t) |-> DoiPrefixEnd(t, i)], <<>>)

\* the title of a match: trimmed, the URLs and the doi: tokens taken out,
\* trimmed again
CleanTitle(group) ==
    CHOOSE t \in {strip(StripDoiPrefixed(t2)) :
                     t2 \in {StripUrls(t1) : t1 \in {strip(group)}}} : TRUE

\* "([^"]+)": the group of the first match, None when there is none
QuotedGroup(s) ==
    LET Close(q) == RunEnd(s, q + 1, Chars \ {DQUOTE})
        opens == {q \in 1..Len(s) :
                     s[q] = DQUOTE /\ Close(q) > q + 1 /\ Close(q) <= Len(s)}
    IN  IF opens = {} THEN None
        ELSE Slice(s, LeastOf(opens) + 1, Close(LeastOf(opens)))

\* ,\s+([^,]+?),\s+(?:vol\.|in\s+) ignoring case: the group of the first
\* match trimmed, None when there is none.  Where the group starts in the
\* whitespace after the comma makes no difference once it is trimmed.
CommaGroup(s) ==
    LET Close(i) == RunEnd(s, i + 1, Chars \ {","})
        After(j) == \/ SpaceThenLit(s, j, <<"v", "o", "l", ".">>)
                   \/ /\ SpaceThenLit(s, j, <<"i", "n">>)
                      /\ At(s, RunEnd(s, j, Space) + 2) \in Space
        commas == {i \in 1..Len(s) :
                      /\ s[i] = ","
                      /\ At(s, i + 1) \in Space
                      /\ Close(i) >= i + 3
                      /\ Close(i) <= Len(s)
                      /\ After(Close(i) + 1)}
    IN  IF commas = {} THEN None
        ELSE strip(Slice(s, LeastOf(commas) + 1, Close(LeastOf(commas))))

\* (?:^|\.\s+)([A-Z][^.]+?)\.\s+[A-Z]: the group of the first match, None
\* when there is none
SentenceGroup(s) ==
    LET Close(g) == RunEnd(s, g + 1, Chars \ {"."})
        Sentence(g) == /\ At(s, g) \in Upper
                       /\ Close(g) >= g + 2
                       /\ Close(g) <= Len(s)
                       /\ SpaceThen(s, Close(g) + 1, Upper)
        \* where the group starts for a match that starts at i
        GroupStart(i) == IF i = 1 /\ Sentence(1) THEN 1 ELSE RunEnd(s, i + 1, Space)
        starts == {i \in 1..Len(s) :
                      \/ i = 1 /\ Sentence(1)
                      \/ s[i] = "." /\ At(s, i + 1) \in Space
                                    /\ Sentence(RunEnd(s, i + 1, Space))}
    IN  IF starts = {} THEN None
        ELSE Slice(s, GroupStart(LeastOf(starts)),
                   Close(GroupStart(LeastOf(starts))))

\* re.match(r'^\d{4}', title)
StartsWithYear(title) == \A k \in 1..4 : At(title, k) \in Digit

\* the text between the first and the second full stop, None when the
\* reference has fewer than three parts, the text is blank or starts with a
\* year
SecondPart(s) ==
    LET parts == SplitFrom(s, ".", 1)
    IN  IF Len(parts) >= 3 /\ strip(parts[2]) # <<>> /\ ~StartsWithYear(strip(parts[2]))
        THEN strip(parts[2]) ELSE None

\* the text or, when there is none, the other
Else(t, other) == IF t # None THEN t ELSE other

NamedStyles == {"APA 7", "IEEE", "MLA", "Chicago", "Vancouver"}

\* the branch of a named style, on the trimmed reference
NamedTitle(ref, style) ==
    IF style = "APA 7" THEN
        LET heads == [i \in 1..Len(ref) |-> ParenYearEnd(ref, i)]
            first == GroupAfterHead(ref, heads, ApaEnds(ref))
            second == GroupAfterHead(ref, heads, ApaAltEnds(ref))
        IN  IF first # None THEN CleanTitle(first)
            ELSE IF second # None THEN CleanTitle(second)
            ELSE <<>>
    ELSE IF style = "IEEE" THEN
        IF QuotedGroup(ref) # None THEN strip(QuotedGroup(ref))
        ELSE Else(CommaGroup(ref), <<>>)
    ELSE IF style = "MLA" THEN
        IF QuotedGroup(ref) # None THEN strip(QuotedGroup(ref))
        ELSE IF SentenceGroup(ref) # None THEN strip(SentenceGroup(ref))
        ELSE <<>>
    ELSE IF style = "Chicago" THEN
        LET heads == [i \in 1..Len(ref) |-> BareYearEnd(ref, i)]
            group == GroupAfterHead(ref, heads, ChicagoEnds(ref))
        IN  IF group # None THEN CleanTitle(group) ELSE <<>>
    ELSE \* Vancouver
        IF SecondPart(ref) # None THEN CleanTitle(SecondPart(ref)) ELSE <<>>

\* the styles the automatic mode tries, in its order
AutoOrder == <<"APA 7", "IEEE", "MLA", "Vancouver", "Chicago">>

\* a title the automatic mode takes: if title and len(title) > 10
AcceptTitle_ten(title) == title # <<>> /\ Len(title) >= 10
AcceptTitle(title) == title # <<>> /\ Len(title) > 10

\* not reference or not reference.strip()
BlankReference(reference) ==
    reference = None \/ reference = <<>> \/ strip(reference) = <<>>

RECURSIVE AutoFrom(_, _)
\* the loop of the automatic mode from the k-th style on; a call with a named
\* style goes to that style's branch
AutoFrom(ref, k) ==
    IF k > Len(AutoOrder) THEN <<>>
    ELSE CHOOSE r \in {IF AcceptTitle(title) THEN title ELSE AutoFrom(ref, k + 1) :
                          title \in {NamedTitle(ref, AutoOrder[k])}} : TRUE

extract_title_by_style(reference, style) ==
    IF BlankReference(reference) THEN <<>>
    ELSE CHOOSE r \in {IF style \in NamedStyles THEN NamedTitle(ref, style)
                       ELSE AutoFrom(ref, 1) : ref \in {strip(reference)}} : TRUE

RECURSIVE AutoCallsFrom(_, _)
\* the calls extract_title_by_style(reference, style_attempt) the loop makes
AutoCallsFrom(ref, k) ==
    IF k > Len(AutoOrder) THEN <<>>
    ELSE <<AutoOrder[k]>> \o (IF AcceptTitle(NamedTitle(ref, AutoOrder[k])) THEN <<>>
                              ELSE AutoCallsFrom(ref, k + 1))

\* the styles whose branch a call runs, in the order it runs them
StyleCalls(reference, style) ==
    IF BlankReference(reference) THEN <<>>
    ELSE IF style \in NamedStyles THEN <<style>>
    ELSE AutoCallsFrom(strip(reference), 1)

-----------------------------------------------------------------------------
(* src/src/doi_validate.py: validate_doi_http *)

\* what a request comes back with: a response with a status code, or an
\* exception
Response(status) == [raised |-> "", status |-> status]
Raises(exception) == [raised |-> exception, status |-> 0]

\* key = doi.lower(), and the key taken as the DOI is spelled
CacheKey_as_spelled(doi) == doi
CacheKey(doi) == lower(doi)

\* status in (405, 403, 404, 400) or status >= 500
NeedsGet(head) == head.raised = "" /\ (head.status \in {405, 403, 404, 400} \/ head.status >= 500)

\* what an attempt ends with: the exception of the HEAD, else the GET's
\* answer when the HEAD's status calls for one, else the HEAD's response
FinalResponse(head, get) == IF NeedsGet(head) THEN get ELSE head

\* the requests of an attempt
HeadRequests(head, get) == 1
GetRequests(head, get) == IF NeedsGet(head) THEN 1 ELSE 0

\* the statuses that end the call at once
Resolves(final) == final.raised = "" /\ 200 <= final.status /\ final.status < 400
NotFound_retried(final) == FALSE
NotFound(final) == final.raised = "" /\ final.status \in {404, 400}

\* if attempt < max_retries - 1: ... continue
Retried(final, attempt, max_retries) ==
    ~Resolves(final) /\ ~NotFound(final) /\ attempt < max_retries - 1

\* the arguments of store(...) for an attempt that returns
Verdict(ok, category, status, message) ==
    [ok |-> ok, category |-> category, status |-> status, message |-> message]

AttemptVerdict(final) ==
    IF final.raised = "Timeout" THEN Verdict(FALSE, "unknown", 0, "Timeout")
    ELSE IF final.raised = "ConnectionError"
    THEN Verdict(FALSE, "unknown", 0, "Error de conexión")
    ELSE IF final.raised # ""
    THEN Verdict(FALSE, "unknown", 0, "Error: {type(e).__name__}: {str(e)[:80]}")
    ELSE IF Resolves(final)
    THEN Verdict(TRUE, "valid", final.status, "Resuelve (HTTP {status})")
    ELSE IF final.status = 429
    THEN Verdict(FALSE, "unknown", final.status, "Rate limit (HTTP 429)")
    ELSE IF 500 <= final.status /\ final.status < 600
    THEN Verdict(FALSE, "unknown", final.status, "Error servidor (HTTP {status})")
    ELSE IF final.status = 404
    THEN Verdict(FALSE, "invalid", final.status,
                 "doi.org respondió 404 (no resolvió el DOI)")
    ELSE IF final.status = 400
    THEN Verdict(FALSE, "invalid", final.status,
                 "doi.org respondió 400 (Bad Request; posible DOI/formato inválido)")
    ELSE Verdict(FALSE, "unknown", final.status, "Respuesta no concluyente (HTTP {status})")

\* the verdict of line 98, after the loop
RetriesExhausted == Verdict(FALSE, "unknown", 0, "Máximo de reintentos alcanzado")

\* the cache: a function from keys to entries
EmptyCache == [k \in {} |-> RetriesExhausted]

\* cache[key] = {"ok": ..., "category": ..., "status": ..., "message": ..., "time": rt}
CacheEntry(verdict, rt) ==
    [ok |-> verdict.ok, category |-> verdict.category, status |-> verdict.status,
     message |-> verdict.message, time |-> rt]
Stored_nowhere(cache, key, verdict, rt) == cache
Stored(cache, key, verdict, rt) ==
    [k \in DOMAIN cache \cup {key} |->
        IF k = key THEN CacheEntry(verdict, rt) ELSE cache[k]]

\* no request was made, and nothing was returned
NotAsked == Raises("(not asked)")
NoResult == [doi |-> <<>>]

\* return doi, c["ok"], c["category"], c["status"], c["message"], c["time"]
ReturnedVerdict(doi, c) ==
    [doi |-> doi, ok |-> c.ok, category |-> c.category, status |-> c.status,
     message |-> c.message, time |-> c.time]

-----------------------------------------------------------------------------
(* src/app.py: the rows of a run, their Crossref titles and match labels *)

\* _categorize_doi, of a validation that got an HTTP answer
_categorize_doi(category, http_status) ==
    IF category = "valid" THEN "válido"
    ELSE IF category = "invalid" THEN "inválido"
    ELSE IF category = "unknown"
         THEN IF 400 <= http_status /\ http_status < 600 THEN "sospechoso"
              ELSE "desconocido"
    ELSE category

\* the row appended for a validated DOI, with the bibliographic title that
\* is joined to it; the Crossref columns are not there yet
ValidatedRow(doi, category, http_status, bib_title) ==
    [DOI |-> doi,
     Categoria |-> _categorize_doi(category, http_status),
     CodigoHTTP |-> http_status,
     TituloBibliografia |-> bib_title,
     crossref_columns |-> FALSE,
     TituloCrossref |-> <<>>,
     ScoreTitulo |-> NoScore,
     TituloMatch |-> ""]

\* label_traduccion.get(label, "desconocido"), the unknown label mistaken
label_traduccion_mismatch(label) ==
    IF label = "match" THEN "coincide" ELSE "no_coincide"

\* label_traduccion.get(label, "desconocido")
label_traduccion(label) ==
    IF label = "match" THEN "coincide"
    ELSE IF label = "mismatch" THEN "no_coincide"
    ELSE "desconocido"

\* the body of the Crossref loop for one row; an empty Score título is NoScore
WithCrossref(r, cr_title, validate_title_match, title_threshold) ==
    LET title == OrEmpty(cr_title)
        score == title_match_score(r.TituloBibliografia, title)
    IN  [r EXCEPT !.crossref_columns = TRUE,
                  !.TituloCrossref = title,
                  !.ScoreTitulo = IF validate_title_match THEN score ELSE NoScore,
                  !.TituloMatch =
                      IF validate_title_match
                      THEN label_traduccion(title_match_label(score, title_threshold))
                      ELSE "desconocido"]

\* the order of the strings that are sorted
CategoryOrder == <<"desconocido", "inválido", "sospechoso", "válido">>
MatchOrder == <<"", "coincide", "desconocido", "no_coincide">>
DoiOrder ==
    << <<"1", "0", ".", "1", "/", "A">>, <<"1", "0", ".", "1", "/", "a">>,
       <<"1", "0", ".", "1", "/", "b">>, <<"1", "0", ".", "1", "/", "c">> >>
Rank(order, s) == CHOOSE k \in 1..Len(order) : order[k] = s

\* sort_values(by=["Categoría", "Título match", "Código HTTP", "DOI"]): a
\* row's key, and the order of two keys
SortKey(r) ==
    <<Rank(CategoryOrder, r.Categoria), Rank(MatchOrder, r.TituloMatch),
      r.CodigoHTTP, Rank(DoiOrder, r.DOI)>>
KeyBefore(a, b) ==
    \E k \in 1..Len(a) : a[k] < b[k] /\ \A j \in 1..(k - 1) : a[j] = b[j]

\* the rows sorted; no two rows have the same DOI
to_dataframe(rows) ==
    LET Place(i) == Cardinality({j \in 1..Len(rows) :
                                    KeyBefore(SortKey(rows[j]), SortKey(rows[i]))})
    IN  [k \in 1..Len(rows) |-> rows[CHOOSE i \in 1..Len(rows) : Place(i) = k - 1]]

-----------------------------------------------------------------------------
(* src/src/reporting.py: make_txt_report *)

\* no report has been made
NoReport == [total |-> -1]

\* (df["Categoría"] == value).sum()
CategoryCount(df, value) ==
    Cardinality({k \in 1..Len(df) : df[k].Categoria = value})

\* (df["Título match"] == value).sum(), 0 when the table has no such column
TitleMatchCount(df, value) ==
    Cardinality({k \in 1..Len(df) :
                    df[k].crossref_columns /\ df[k].TituloMatch = value})

\* the counts of the head of the report
make_txt_report(df) ==
    [total |-> Len(df),
     valid_count |-> CategoryCount(df, "valid"),
     invalid_count |-> CategoryCount(df, "invalid"),
     unknown_count |-> CategoryCount(df, "unknown"),
     match_count |-> TitleMatchCount(df, "match"),
     mismatch_count |-> TitleMatchCount(df, "mismatch"),
     t_unknown_count |-> TitleMatchCount(df, "unknown")]

-----------------------------------------------------------------------------
(* The extraction run: the text of a source is put together from fragments, *)
(* the library scan (extract_dois_from_text) or the application's harvest   *)
(* (extract_dois_robust) is applied to it, further sources follow, and the  *)
(* records of all sources are merged by _dedupe_dois.                       *)

MaxFragments == 3
MaxSources == 2

Fragments ==
    { <<"1", "0", ".", "1", "2", "3", "4", "/", "a", "b">>,
      <<"1", "0", ".", "1", "2", "3", "4", "/", "A", "B">>,
      <<"1", "0", ".", "1", "2", "3", "4", "/", "a">>,
      <<"d", "o", "i", ":">>,
      <<NL>>,
      <<".", "5">>,
      <<"{">> }

TypeFragment(f) ==
    /\ phase = "input"
    /\ typed < MaxFragments
    /\ cur_text' = cur_text \o f
    /\ typed' = typed + 1
    /\ UNCHANGED <<phase, sources, found, harvest_out, harvest_uniq,
                   all_dois_info, unique_dois, x_others>>

\* the library's multi-pattern scan of the cur_text
ScanText ==
    /\ phase = "input"
    /\ phase' = "scanned"
    /\ found' = extract_dois_from_text(cur_text)
    /\ UNCHANGED <<cur_text, typed, sources, harvest_out, harvest_uniq,
                   all_dois_info, unique_dois, x_others>>

\* one source of the run: all_dois_info.extend(extract_dois_robust(cur_text))
HarvestSource ==
    /\ phase = "input"
    /\ sources < MaxSources
    /\ phase' = "harvested"
    /\ sources' = sources + 1
    /\ harvest_out' = robust_out(cur_text)
    /\ harvest_uniq' = extract_dois_robust(cur_text)
    /\ all_dois_info' = all_dois_info \o extract_dois_robust(cur_text)
    /\ UNCHANGED <<cur_text, typed, found, unique_dois, x_others>>

NextSource ==
    /\ phase = "harvested"
    /\ sources < MaxSources
    /\ phase' = "input"
    /\ cur_text' = <<>>
    /\ harvest_out' = <<>>
    /\ harvest_uniq' = <<>>
    /\ UNCHANGED <<typed, sources, found, all_dois_info, unique_dois,
                   x_others>>

\* unique_dois = _dedupe_dois(all_dois_info)
Dedupe ==
    /\ phase = "harvested"
    /\ phase' = "deduped"
    /\ unique_dois' = _dedupe_dois(all_dois_info)
    /\ UNCHANGED <<cur_text, typed, sources, found, harvest_out, harvest_uniq,
                   all_dois_info, x_others>>

x_Next ==
    \/ \E f \in Fragments : TypeFragment(f)
    \/ ScanText
    \/ HarvestSource
    \/ NextSource
    \/ Dedupe

-----------------------------------------------------------------------------
(* Driver of normalize_text: a text is typed in, then normalised twice.    *)

MaxNormLen == 3

NormAlphabet == {"e", "x", ACUTE, E_ACUTE, SHY, CR, NL, LIG_FI}

n_Type(c) ==
    /\ n_pc = "input"
    /\ n_text # None
    /\ Len(n_text) < MaxNormLen
    /\ n_text' = Append(n_text, c)
    /\ UNCHANGED <<n_pc, n_once, n_twice, n_others>>

\* the caller has no text at all
n_Absent ==
    /\ n_pc = "input"
    /\ n_text = <<>>
    /\ n_text' = None
    /\ UNCHANGED <<n_pc, n_once, n_twice, n_others>>

n_Normalize ==
    /\ n_pc = "input"
    /\ n_pc' = "done"
    /\ n_once' = normalize_text(n_text)
    /\ n_twice' = normalize_text(normalize_text(n_text))
    /\ UNCHANGED <<n_text, n_others>>

n_Next ==
    \/ \E c \in NormAlphabet : n_Type(c)
    \/ n_Absent
    \/ n_Normalize

-----------------------------------------------------------------------------
(* Driver of slice_references_section: a document is put together from      *)
(* lines and blocks of lines, then the section is located in it.            *)

MaxPieces == 4

\* n times the character c
Repeat(c, n) == [k \in 1..n |-> c]

\* ten lines of body text
TenLines ==
    LET line == Repeat("x", 40) \o <<NL>>
    IN  line \o line \o line \o line \o line \o line \o line \o line \o line
             \o line

\* whole lines: two headings, a terminator, body text, a blank line
Pieces ==
    { <<"R", "e", "f", "e", "r", "e", "n", "c", "e", "s", NL>>,
      <<SP, "1", ".", SP, "B", "i", "b", "l", "i", "o", "g", "r", "a", "f",
        AcuteLower["i"], "a", ":", NL>>,
      <<"F", "u", "n", "d", "i", "n", "g", NL>>,
      TenLines,
      Repeat("x", 237) \o <<NL>>,
      <<"x", NL>>,
      <<SP, SP, NL>> }

\* the values of min_lines_after a call is made with
MinLinesChoices == {min_lines_after_default, 2}

r_Type(p) ==
    /\ r_pc = "input"
    /\ r_typed < MaxPieces
    /\ r_text' = r_text \o p
    /\ r_typed' = r_typed + 1
    /\ UNCHANGED <<r_pc, r_min, r_result, r_others>>

r_Slice(m) ==
    /\ r_pc = "input"
    /\ r_pc' = "done"
    /\ r_min' = m
    /\ r_result' = slice_references_section(r_text, m)
    /\ UNCHANGED <<r_text, r_typed, r_others>>

r_Next ==
    \/ \E p \in Pieces : r_Type(p)
    \/ \E m \in MinLinesChoices : r_Slice(m)

-----------------------------------------------------------------------------
(* Driver of title_match_score: the title read in the bibliography and the  *)
(* title Crossref has are typed in, or are absent, and then compared.       *)

MaxTitlePieces == 3

\* what a title of a bibliography is made of: a word, an accented letter, a
\* dash, punctuation and a blank
TitlePieces == {<<"C", "d">>, <<E_ACUTE>>, <<EN_DASH>>, <<"!", SP>>}

\* what a title of Crossref is made of
CrossrefPieces == {<<"c", "d">>, <<"e">>, <<"-">>, <<SP>>}

t_TypeA(p) ==
    /\ t_pc = "input"
    /\ t_a # None
    /\ t_na < MaxTitlePieces
    /\ t_a' = t_a \o p
    /\ t_na' = t_na + 1
    /\ UNCHANGED <<t_pc, t_b, t_nb, t_score, t_score_norm, t_others>>

t_TypeB(p) ==
    /\ t_pc = "input"
    /\ t_b # None
    /\ t_nb < MaxTitlePieces
    /\ t_b' = t_b \o p
    /\ t_nb' = t_nb + 1
    /\ UNCHANGED <<t_pc, t_a, t_na, t_score, t_score_norm, t_others>>

\* no title could be read in the bibliography
t_AbsentA ==
    /\ t_pc = "input"
    /\ t_a = <<>>
    /\ t_a' = None
    /\ UNCHANGED <<t_pc, t_b, t_na, t_nb, t_score, t_score_norm, t_others>>

\* Crossref has no title
t_AbsentB ==
    /\ t_pc = "input"
    /\ t_b = <<>>
    /\ t_b' = None
    /\ UNCHANGED <<t_pc, t_a, t_na, t_nb, t_score, t_score_norm, t_others>>

t_Score ==
    /\ t_pc = "input"
    /\ t_pc' = "done"
    /\ t_score' = title_match_score(t_a, t_b)
    /\ t_score_norm' =
           title_match_score(normalize_title(t_a), normalize_title(t_b))
    /\ UNCHANGED <<t_a, t_b, t_na, t_nb, t_others>>

t_Next ==
    \/ \E p \in TitlePieces : t_TypeA(p)
    \/ \E p \in CrossrefPieces : t_TypeB(p)
    \/ t_AbsentA
    \/ t_AbsentB
    \/ t_Score

-----------------------------------------------------------------------------
(* Driver of title_match_label: a score and a threshold are labelled.       *)

\* the thresholds of the application's slider: 0.50 to 0.95 in steps of 0.01
Thresholds == {5000 + 100 * k : k \in 0..45}

\* the default of the slider
DefaultThreshold == 7800

\* no score, the least and the greatest score, and the scores at and next to
\* a threshold
LabelScores ==
    {NoScore, 0, 10000} \cup {th + d : th \in Thresholds, d \in {-1, 0, 1}}

l_Label(score, threshold) ==
    /\ l_pc = "input"
    /\ l_pc' = "done"
    /\ l_score' = score
    /\ l_threshold' = threshold
    /\ l_label' = title_match_label(score, threshold)
    /\ UNCHANGED l_others

l_Next ==
    \E score \in LabelScores, threshold \in Thresholds :
        l_Label(score, threshold)

-----------------------------------------------------------------------------
(* Driver of the search of a DOI's reference: the reference list is put      *)
(* together line by line; then the lines that hold a DOI are looked up, or  *)
(* the best block for a DOI is picked.                                      *)

MaxRefLines == 2

\* lines of a reference list: two references to one DOI with different
\* titles, a bare mention of it, a mention broken at a line end, and a line
\* without it
RefLines ==
    { <<"S", "m", "i", "t", "h", SP, "(", "2", "0", "1", "8", ")", ".", SP,
      "D", "e", "e", "p", SP, "l", "e", "a", "r", "n", "i", "n", "g", SP, "f",
      "o", "r", SP, "t", "e", "x", "t", SP, "t", "h", "i", "n", "g", "s", ".",
      SP, "1", "0", ".", "1", "2", "3", "4", "/", "a", "b">>,
      <<"D", "o", "e", SP, "(", "2", "0", "1", "9", ")", ".", SP, "A", SP,
      "s", "t", "u", "d", "y", SP, "o", "f", SP, "m", "a", "n", "y", SP, "m",
      "o", "r", "e", SP, "t", "h", "i", "n", "g", "s", SP, "h", "e", "r", "e",
      ".", SP, "d", "o", "i", ":", "1", "0", ".", "1", "2", "3", "4", "/",
      "A", "B">>,
      <<"s", "e", "e", SP, "1", "0", ".", "1", "2", "3", "4", "/", "a", "b">>,
      <<"1", "0", ".", "1", "2", "3", "4", "/", "a", "-", NL, "b">>,
      <<"O", "t", "h", "e", "r", SP, "t", "e", "x", "t", ",", SP, "n", "o",
      SP, "i", "d", "e", "n", "t", "i", "f", "i", "e", "r", ".">> }

\* the DOIs looked for: one the lines hold, one they do not, none, and one
\* of whitespace alone
SoughtDois ==
    { <<"1", "0", ".", "1", "2", "3", "4", "/", "a", "b">>,
      <<"1", "0", ".", "9", "9", "9", "9", "/", "z", "z">>,
      <<>>,
      <<SP>> }

\* the Crossref titles a call is made with: none, and the first reference's
Anchors ==
    { <<>>,
      <<"D", "e", "e", "p", SP, "l", "e", "a", "r", "n", "i", "n", "g", SP,
      "f", "o", "r", SP, "t", "e", "x", "t", SP, "t", "h", "i", "n", "g",
      "s">> }

\* the windows of a call: the default, and the DOI line alone
Windows == {<<before_default, after_default>>, <<0, 0>>}

s_Type(ln) ==
    /\ s_pc = "input"
    /\ Len(s_lines) < MaxRefLines
    /\ s_lines' = Append(s_lines, ln)
    /\ UNCHANGED <<s_pc, s_doi, s_anchor, s_before, s_after, s_cands, s_line,
                   s_result, s_others>>

s_Find(doi) ==
    /\ s_pc = "input"
    /\ s_pc' = "found"
    /\ s_doi' = doi
    /\ s_cands' = find_reference_candidates_for_doi(doi, s_lines)
    /\ s_line' = find_reference_line_for_doi(doi, s_lines)
    /\ UNCHANGED <<s_lines, s_anchor, s_before, s_after, s_result, s_others>>

s_Pick(doi, crossref_title, w) ==
    /\ s_pc = "input"
    /\ s_pc' = "picked"
    /\ s_doi' = doi
    /\ s_anchor' = crossref_title
    /\ s_before' = w[1]
    /\ s_after' = w[2]
    /\ s_result' = pick_best_reference_block_for_doi(doi, s_lines,
                                                     crossref_title, w[1], w[2])
    /\ UNCHANGED <<s_lines, s_cands, s_line, s_others>>

s_Next ==
    \/ \E ln \in RefLines : s_Type(ln)
    \/ \E doi \in SoughtDois : s_Find(doi)
    \/ \E doi \in SoughtDois : \E a \in Anchors : \E w \in Windows :
           s_Pick(doi, a, w)

-----------------------------------------------------------------------------
(* Driver of extract_title_by_style: a reference is put together from whole *)
(* references and fragments, then its title is extracted under a style.     *)

MaxStylePieces == 2

\* references in the APA, IEEE and Chicago styles, a reference with a short
\* title in quotation marks, a fragment with a title between commas, and a
\* doi: token
StylePieces ==
    { <<"S", "m", "i", "t", "h", SP, "(", "2", "0", "1", "8", ")", ".", SP,
      "D", "e", "e", "p", SP, "l", "e", "a", "r", "n", "i", "n", "g", SP, "f",
      "o", "r", SP, "t", "e", "x", "t", ".", SP, "N", "a", "t", "u", "r", "e",
      ".", SP>>,
      <<"L", "e", "e", ",", SP, DQUOTE, "s", "e", "e", SP, "h", "t", "t", "p",
      ":", "/", "/", "x", ".", "o", "r", "g", "/", "a", SP, "n", "o", "w",
      ",", DQUOTE, SP, "J", ".", SP, "C", "o", "m", "p", ".", ",", SP, "v",
      "o", "l", ".", SP, "3", ".", SP>>,
      <<"D", "o", "e", ".", SP, "2", "0", "1", "9", ".", SP, "C", "h", "i",
      "c", "a", "g", "o", SP, "s", "t", "y", "l", "e", SP, "t", "i", "t", "l",
      "e", ".", SP, "P", "r", "e", "s", "s", ".", SP>>,
      <<"A", ".", SP, DQUOTE, "T", "e", "n", SP, "c", "h", "a", "r", "s", "!",
      DQUOTE, SP, "B", ".", SP>>,
      <<"P", "o", "e", ",", SP, "S", "h", "o", "r", "t", SP, "o", "n", "e",
      ",", SP, "i", "n", SP, "P", "r", "o", "c", ".", SP>>,
      <<"d", "o", "i", ":", "1", "0", ".", "1", "/", "x", SP>> }

\* the options of the style selector
Styles == NamedStyles \cup {"Auto (detectar)"}

e_Type(p) ==
    /\ e_pc = "input"
    /\ e_typed < MaxStylePieces
    /\ e_ref' = e_ref \o p
    /\ e_typed' = e_typed + 1
    /\ UNCHANGED <<e_pc, e_style, e_title, e_calls, e_others>>

e_Extract(style) ==
    /\ e_pc = "input"
    /\ e_pc' = "done"
    /\ e_style' = style
    /\ e_title' = extract_title_by_style(e_ref, style)
    /\ e_calls' = StyleCalls(e_ref, style)
    /\ UNCHANGED <<e_ref, e_typed, e_others>>

e_Next ==
    \/ \E p \in StylePieces : e_Type(p)
    \/ \E style \in Styles : e_Extract(style)

-----------------------------------------------------------------------------
(* Driver of extract_bibliographic_title: a reference line is put together  *)
(* from references and fragments, or is absent, then its title is           *)
(* extracted.                                                               *)

MaxBibPieces == 2

\* a reference with the date in parentheses, a web page with its
\* organisation in brackets, a reference without a date, a short and a very
\* long title in quotation marks, a date, a URL and two doi: tokens
BibPieces ==
    { <<"S", "m", "i", "t", "h", SP, "(", "2", "0", "1", "8", ")", ".", SP,
      "D", "e", "e", "p", SP, "l", "e", "a", "r", "n", "i", "n", "g", SP, "f",
      "o", "r", SP, "t", "e", "x", "t", ".", SP, "N", "a", "t", "u", "r", "e",
      ".", SP>>,
      <<"W", "e", "b", SP, "p", "a", "g", "e", SP, "t", "i", "t", "l", "e",
      SP, "[", "O", "r", "g", "]", ".", SP, "(", "n", ".", "d", ".", ")", ".",
      SP, "R", "e", "t", "r", "i", "e", "v", "e", "d", SP, "f", "r", "o", "m",
      SP, "h", "t", "t", "p", ":", "/", "/", "x", ".", "o", "r", "g", SP>>,
      <<"L", "e", "e", ".", SP, "S", "o", "m", "e", SP, "s", "e", "g", "m",
      "e", "n", "t", SP, "t", "i", "t", "l", "e", ".", SP, "P", "r", "e", "s",
      "s", ".", SP>>,
      <<DQUOTE, "Q", "u", "o", "t", "e", "d", SP, "t", "i", "t", "l", "e", SP,
      "o", "f", SP, "w", "o", "r", "k", DQUOTE, SP>>,
      <<LDQUO>> \o Repeat("x", 301) \o <<RDQUO, SP>>,
      <<"(", "2", "0", "1", "9", ")", SP>>,
      <<"s", "e", "e", SP, "h", "t", "t", "p", "s", ":", "/", "/", "x", ".",
      "o", "r", "g", "/", "a", SP, "a", "n", "d", SP, "x", "d", "o", "i", ":",
      "1", "0", ".", "1", "2", "3", "4", "/", "a", "b", SP>>,
      <<"d", "o", "i", ":", SP, "1", "0", ".", "1", "2", "3", "4", "/", "a",
      "b", ",", SP, "d", "o", "i", ":">> }

b_Type(p) ==
    /\ b_pc = "input"
    /\ b_ref # None
    /\ b_typed < MaxBibPieces
    /\ b_ref' = b_ref \o p
    /\ b_typed' = b_typed + 1
    /\ UNCHANGED <<b_pc, b_title, b_others>>

b_Absent ==
    /\ b_pc = "input"
    /\ b_typed = 0
    /\ b_ref # None
    /\ b_ref' = None
    /\ UNCHANGED <<b_pc, b_typed, b_title, b_others>>

b_Extract ==
    /\ b_pc = "input"
    /\ b_pc' = "done"
    /\ b_title' = extract_bibliographic_title(b_ref)
    /\ UNCHANGED <<b_ref, b_typed, b_others>>

b_Next ==
    \/ \E p \in BibPieces : b_Type(p)
    \/ b_Absent
    \/ b_Extract

-----------------------------------------------------------------------------
(* Driver of extract_reference_lines: a section is put together from whole  *)
(* lines, then its reference lines are extracted.                           *)

MaxLinePieces == 2

\* lines of 35 and of 34 characters, a padded line, a heading with a long
\* number and a plain one, a line that normalisation lengthens and one it
\* shortens, and a line ended by a carriage return
LinePieces ==
    { Repeat("x", 35) \o <<NL>>,
      Repeat("y", 34) \o <<NL>>,
      <<SP, SP>> \o Repeat("z", 36) \o <<TAB, NL>>,
      Repeat("1", 25) \o <<".", SP, "R", "e", "f", "e", "r", "e", "n", "c", "e", "s", ":", NL>>,
      <<"R", "e", "f", "e", "r", "e", "n", "c", "e", "s", NL>>,
      Repeat("v", 34) \o <<LIG_FI, NL>>,
      Repeat("w", 34) \o <<SHY, NL>>,
      Repeat("u", 40) \o <<CR>> }

g_Type(p) ==
    /\ g_pc = "input"
    /\ g_typed < MaxLinePieces
    /\ g_text' = g_text \o p
    /\ g_typed' = g_typed + 1
    /\ UNCHANGED <<g_pc, g_lines, g_others>>

g_Extract ==
    /\ g_pc = "input"
    /\ g_pc' = "done"
    /\ g_lines' = extract_reference_lines(g_text)
    /\ UNCHANGED <<g_text, g_typed, g_others>>

g_Next ==
    \/ \E p \in LinePieces : g_Type(p)
    \/ g_Extract

-----------------------------------------------------------------------------
(* Driver of the two repair passes: a text is typed in, then both passes    *)
(* are applied to it.                                                       *)

MaxRepairLen == 5

RepairAlphabet == {"1", "a", "/", "-", SP, NL, SHY}

p_Type(c) ==
    /\ p_pc = "input"
    /\ Len(p_text) < MaxRepairLen
    /\ p_text' = Append(p_text, c)
    /\ UNCHANGED <<p_pc, p_extraction, p_harvest, p_others>>

p_Repair ==
    /\ p_pc = "input"
    /\ p_pc' = "done"
    /\ p_extraction' = normalize_text_for_doi_extraction(p_text)
    /\ p_harvest' = _normalize_for_doi_harvest(p_text)
    /\ UNCHANGED <<p_text, p_others>>

p_Next ==
    \/ \E c \in RepairAlphabet : p_Type(c)
    \/ p_Repair

-----------------------------------------------------------------------------
(* src/app.py: the run of the button "Extraer y Validar", from the merged   *)
(* records to the stored table                                              *)

\* st.session_state["df"]: not set yet, and set to a table
NoTable == [stored |-> FALSE, rows |-> <<>>]
StoredTable(df) == [stored |-> TRUE, rows |-> df]

\* st.session_state["crossref_cache"] = {}
EmptyTitles == [k \in {} |-> None]

\* unique_dois = _dedupe_dois(all_dois_info), and the records as collected
RunUniqueDois_undeduped(records) == records
RunUniqueDois(records) == _dedupe_dois(records)

\* if not unique_dois: st.warning(...); st.stop(), and the test left out
NoDois_ignored(uniq) == FALSE
NoDois(uniq) == uniq = <<>>

\* a future that no worker has taken yet
Queued == [pc |-> "queued", attempt |-> 0, requests |-> 0, result |-> NoResult]

\* the futures a worker is running
Busy(tasks) == {i \in 1..Len(tasks) : tasks[i].pc = "running"}

\* store(...) of a worker: the write as the log of the run keeps it
CacheWrite(cache, key, task) ==
    [key |-> key, task |-> task, over |-> key \in DOMAIN cache]

\* d = by_doi.get(key, {}) and the defaults of d.get(...)
NoAuxiliary ==
    [file_name |-> "N/A", page |-> "N/A", pattern |-> "", context |-> "",
     reference_line |-> "", bib_title |-> <<>>]

\* by_doi = {d["doi"].lower(): d for d in unique_dois}; by_doi.get(key, {})
by_doi(uniq, key) ==
    LET ks == {k \in 1..Len(uniq) : lower(uniq[k].doi) = key}
    IN  IF ks = {} THEN NoAuxiliary
        ELSE uniq[CHOOSE k \in ks : \A j \in ks : j <= k]

\* the row of a returned future, with the auxiliary fields of the record d
RunRow(result, d) ==
    [DOI |-> result.doi,
     Categoria |-> _categorize_doi(result.category, result.status),
     CodigoHTTP |-> result.status,
     Archivo |-> d.file_name,
     Pagina |-> d.page,
     Patron |-> d.pattern,
     Contexto |-> d.context,
     Referencia |-> d.reference_line,
     TituloBibliografia |-> d.bib_title,
     crossref_columns |-> FALSE,
     TituloCrossref |-> <<>>,
     ScoreTitulo |-> NoScore,
     TituloMatch |-> ""]

\* the rows in the order the futures completed, each with the fields of the
\* record of its lowercased DOI; and with those of the record at its place
Reconnected_in_order(done, uniq) ==
    [k \in 1..Len(done) |-> RunRow(done[k], uniq[k])]
Reconnected(done, uniq) ==
    [k \in 1..Len(done) |-> RunRow(done[k], by_doi(uniq, lower(done[k].doi)))]

RECURSIVE TitlesAfter(_, _, _, _)
\* cr_cache after the first k rows of the Crossref loop: a key that is not
\* in it is looked up, answers[k] is what crossref_title_by_doi gives
TitlesAfter(rows, answers, cr_cache, k) ==
    IF k = 0 THEN cr_cache
    ELSE LET c == TitlesAfter(rows, answers, cr_cache, k - 1)
             key == lower(rows[k].DOI)
         IN  IF key \in DOMAIN c THEN c
             ELSE [x \in DOMAIN c \cup {key} |-> IF x = key THEN answers[k] ELSE c[x]]

\* the rows the Crossref loop leaves
CrossrefRows(rows, answers, cr_cache, validate_title_match, title_threshold) ==
    [k \in 1..Len(rows) |->
        WithCrossref(rows[k],
                     TitlesAfter(rows, answers, cr_cache, k)[lower(rows[k].DOI)],
                     validate_title_match, title_threshold)]

-----------------------------------------------------------------------------
(* src/app.py: the Figshare loop of the run *)

\* what Figshare gives for an id: a detail or none, a PDF among its files or
\* none, the exception the download or the extraction raises, and the number
\* of DOIs found in the PDF
FigshareAnswer(detail, has_pdf, raised, count) ==
    [detail |-> detail, has_pdf |-> has_pdf, raised |-> raised, found |-> count]

\* if not detail: continue; if not pdf_urls: continue; except Exception: pass
Failed(answer) == ~answer.detail \/ ~answer.has_pdf \/ answer.raised # ""

\* a record of a source: the PDF and pasted records have no figshare_id
SourceRecord(position, figshare_id) ==
    [doi |-> <<"1", "0", ".", "1", "/", "a">>, position |-> position,
     figshare_id |-> figshare_id]

\* dois_info of the document, each record with d["figshare_id"] = aid
FigshareRecords(answer, aid) ==
    [k \in 1..answer.found |-> SourceRecord(k - 1, aid)]

\* all_dois_info after the iteration of an id, and a failure that drops
\* what was collected
Collected_dropped(all, answer, aid) ==
    IF Failed(answer) THEN <<>> ELSE all \o FigshareRecords(answer, aid)
Collected(all, answer, aid) ==
    IF Failed(answer) THEN all ELSE all \o FigshareRecords(answer, aid)

-----------------------------------------------------------------------------
(* Driver of the rows of a run: each unique DOI is validated and gets its   *)
(* row, then the Crossref stage fills in the titles, scores and labels and  *)
(* the rows are sorted into the table.                                      *)

MaxRows == 2

\* the outcomes of validate_doi_http: <<category, http_status>>
Outcomes == {<<"valid", 200>>, <<"invalid", 404>>, <<"unknown", 503>>}

\* the titles read in the bibliography: none, a title, and punctuation alone
BibTitles == {<<>>, <<"a", "b">>, <<"!">>}

\* the answers of crossref_title_by_doi: no title, a title half like the
\* bibliography's, and the bibliography's in another case
CrossrefAnswers == {None, <<"a", "c">>, <<"A", "b">>}

\* the least threshold of the slider and its default
RowThresholds == {5000, DefaultThreshold}

\* the DOIs of the rows: no two are the same in lowercase
RowDois == {DoiOrder[k] : k \in 2..Len(DoiOrder)}

w_Validated(doi, outcome, bib_title) ==
    /\ w_pc = "input"
    /\ Len(w_rows) < MaxRows
    /\ \A k \in 1..Len(w_rows) : w_rows[k].DOI # doi
    /\ w_rows' = Append(w_rows, ValidatedRow(doi, outcome[1], outcome[2], bib_title))
    /\ UNCHANGED <<w_pc, w_include, w_validate, w_threshold, w_report, w_others>>

\* the stage is left out: the rows go to the table as they are
w_NoCrossref(validate_title_match, title_threshold) ==
    /\ w_pc = "input"
    /\ w_rows # <<>>
    /\ w_pc' = "done"
    /\ w_include' = FALSE
    /\ w_validate' = validate_title_match
    /\ w_threshold' = title_threshold
    /\ w_rows' = to_dataframe(w_rows)
    /\ UNCHANGED <<w_report, w_others>>

\* answers[k] is what crossref_title_by_doi, or the cache, gives for row k
w_Crossref(validate_title_match, title_threshold, answers) ==
    /\ w_pc = "input"
    /\ w_rows # <<>>
    /\ w_pc' = "done"
    /\ w_include' = TRUE
    /\ w_validate' = validate_title_match
    /\ w_threshold' = title_threshold
    /\ w_rows' = to_dataframe([k \in 1..Len(w_rows) |->
                      WithCrossref(w_rows[k], answers[k], validate_title_match,
                                   title_threshold)])
    /\ UNCHANGED <<w_report, w_others>>

\* the export tab: the text report of the stored table
w_Export ==
    /\ w_pc = "done"
    /\ w_pc' = "exported"
    /\ w_report' = make_txt_report(w_rows)
    /\ UNCHANGED <<w_rows, w_include, w_validate, w_threshold, w_others>>

w_Next ==
    \/ \E doi \in RowDois, outcome \in Outcomes, bib_title \in BibTitles :
           w_Validated(doi, outcome, bib_title)
    \/ \E v \in BOOLEAN, th \in RowThresholds : w_NoCrossref(v, th)
    \/ \E v \in BOOLEAN, th \in RowThresholds,
          answers \in [1..Len(w_rows) -> CrossrefAnswers] : w_Crossref(v, th, answers)
    \/ w_Export

-----------------------------------------------------------------------------
(* Driver of the blend of title_match_score: two signals between 0 and 1    *)
(* are blended.                                                             *)

MaxDenominator == 5

\* the fractions between 0 and 1 with a denominator up to MaxDenominator
Signals == {x \in (0..MaxDenominator) \X (1..MaxDenominator) : x[1] <= x[2]}

f_Blend(seq, jacc) ==
    /\ f_pc = "input"
    /\ f_pc' = "done"
    /\ f_seq' = seq
    /\ f_jacc' = jacc
    /\ f_blend' = Blend(seq, jacc)
    /\ UNCHANGED f_others

f_Next ==
    \E seq \in Signals, jacc \in Signals : f_Blend(seq, jacc)

-----------------------------------------------------------------------------
(* Driver of validate_doi_http: a call is made with an empty cache and runs  *)
(* attempt by attempt, each with the answers doi.org gives; when it has      *)
(* returned, a later call is made with the cache it left.  The time of a     *)
(* call is the number of requests it made.                                   *)

MaxRetries == 2

\* a DOI, the same in capitals, and another
ValidatedDois ==
    { <<"1", "0", ".", "1", "/", "a">>,
      <<"1", "0", ".", "1", "/", "A">>,
      <<"1", "0", ".", "1", "/", "b">> }

\* what doi.org answers to a HEAD and to a GET
HeadAnswers ==
    {Response(s) : s \in {200, 400, 403, 404, 405, 418, 429, 500}} \cup
    {Raises(e) : e \in {"Timeout", "ConnectionError", "ValueError"}}
GetAnswers ==
    {Response(s) : s \in {200, 400, 404, 503}} \cup {Raises("Timeout")}

\* lines 16 to 28, and line 98 when there is no attempt to make
v_Call(doi, max_retries) ==
    /\ v_pc = "idle" \/ (v_pc = "returned" /\ ~v_later)
    /\ v_later' = (v_pc = "returned")
    /\ v_doi' = doi
    /\ v_max' = max_retries
    /\ v_attempt' = 0
    /\ v_heads' = 0
    /\ v_gets' = 0
    /\ v_last' = <<NotAsked, NotAsked>>
    /\ v_before' = v_cache
    /\ v_hit' = (CacheKey(doi) \in DOMAIN v_cache)
    /\ IF CacheKey(doi) \in DOMAIN v_cache
       THEN /\ v_pc' = "returned"
            /\ v_result' = ReturnedVerdict(doi, v_cache[CacheKey(doi)])
            /\ v_cache' = v_cache
       ELSE IF max_retries <= 0
       THEN /\ v_pc' = "returned"
            /\ v_result' = ReturnedVerdict(doi, CacheEntry(RetriesExhausted, 0))
            /\ v_cache' = Stored(v_cache, CacheKey(doi), RetriesExhausted, 0)
       ELSE /\ v_pc' = "running"
            /\ v_result' = NoResult
            /\ v_cache' = v_cache
    /\ UNCHANGED v_others

\* one turn of the loop of lines 35 to 96
v_Attempt(head, get) ==
    /\ v_pc = "running"
    /\ v_heads' = v_heads + HeadRequests(head, get)
    /\ v_gets' = v_gets + GetRequests(head, get)
    /\ v_last' = <<head, get>>
    /\ IF Retried(FinalResponse(head, get), v_attempt, v_max)
       THEN /\ v_attempt' = v_attempt + 1
            /\ UNCHANGED <<v_pc, v_result, v_cache>>
       ELSE /\ v_pc' = "returned"
            /\ v_result' = ReturnedVerdict(v_doi,
                               CacheEntry(AttemptVerdict(FinalResponse(head, get)),
                                          v_heads' + v_gets'))
            /\ v_cache' = Stored(v_cache, CacheKey(v_doi),
                                 AttemptVerdict(FinalResponse(head, get)),
                                 v_heads' + v_gets')
            /\ UNCHANGED v_attempt
    /\ UNCHANGED <<v_later, v_doi, v_max, v_hit, v_before, v_others>>

v_Next ==
    \/ \E doi \in ValidatedDois, max_retries \in 0..MaxRetries : v_Call(doi, max_retries)
    \/ \E head \in HeadAnswers :
           \E get \in IF NeedsGet(head) THEN GetAnswers ELSE {NotAsked} :
               v_Attempt(head, get)

-----------------------------------------------------------------------------
(* Driver of the run of the button: the records of the sources are merged,  *)
(* each unique DOI is given to the pool as a future, the workers run        *)
(* validate_doi_http step by step on the one cache of the session, the main *)
(* thread collects the futures as they complete, attaches the auxiliary     *)
(* fields, asks Crossref and stores the table.  When the run is over, a     *)
(* later run is made in the session it left.  The time of a call is the     *)
(* number of requests it made.                                              *)

MaxRecords == 2
MaxWorkers == 2

\* the records of the sources: a DOI found in a file, the same DOI in
\* capitals pasted, and another DOI found in a second file
RunRecords ==
    { [doi |-> <<"1", "0", ".", "1", "/", "a">>, position |-> 2,
       file_name |-> "uno.pdf", page |-> "3", pattern |-> "Robusto",
       context |-> "doi:10.1/a", reference_line |-> "A. (2020). Ab. 10.1/a",
       bib_title |-> <<"a", "b">>],
      [doi |-> <<"1", "0", ".", "1", "/", "A">>, position |-> 5,
       file_name |-> "Pegado", page |-> "N/A", pattern |-> "Robusto",
       context |-> "10.1/A", reference_line |-> "", bib_title |-> <<>>],
      [doi |-> <<"1", "0", ".", "1", "/", "b">>, position |-> 2,
       file_name |-> "dos.pdf", page |-> "7", pattern |-> "Estricto",
       context |-> "https://doi.org/10.1/b", reference_line |-> "B. (2021). !. 10.1/b",
       bib_title |-> <<"!">>] }

\* all_dois_info: the records of the sources, in the order they were read
RunInputs ==
    UNION {[1..n -> RunRecords] : n \in 0..MaxRecords}

\* max_retries of the slider: no attempt, and two attempts
RunRetries == {0, 2}

\* what doi.org answers to the HEAD and to the GET of an attempt
RunAnswers ==
    { <<Response(200), NotAsked>>, <<Response(404), Response(404)>>,
      <<Raises("Timeout"), NotAsked>> }

\* what crossref_title_by_doi answers: the title of the first record
RunTitles == {<<"a", "b">>}

\* the button is pressed: lines 319 to 401
c_Run(records, workers, max_retries) ==
    /\ c_pc = "idle" \/ (c_pc \in {"finished", "stopped"} /\ ~c_later)
    /\ c_later' = (c_pc # "idle")
    /\ c_unique' = RunUniqueDois(records)
    /\ c_workers' = workers
    /\ c_max' = max_retries
    /\ c_df_before' = c_df
    /\ c_writes' = <<>>
    /\ c_done' = <<>>
    /\ c_rows' = <<>>
    /\ c_lookups' = 0
    /\ IF NoDois(RunUniqueDois(records))
       THEN /\ c_pc' = "stopped"
            /\ c_tasks' = <<>>
       ELSE /\ c_pc' = "validating"
            /\ c_tasks' = [k \in 1..Len(RunUniqueDois(records)) |-> Queued]
    /\ UNCHANGED <<c_cache, c_cr_cache, c_df, c_others>>

\* a free worker takes the next future and runs lines 16 to 19 of
\* validate_doi_http
c_Start(i) ==
    /\ c_pc = "validating"
    /\ i \in 1..Len(c_tasks)
    /\ c_tasks[i].pc = "queued"
    /\ \A j \in 1..(i - 1) : c_tasks[j].pc # "queued"
    /\ Cardinality(Busy(c_tasks)) < c_workers
    /\ c_tasks' =
         [c_tasks EXCEPT ![i] =
            IF CacheKey(c_unique[i].doi) \in DOMAIN c_cache
            THEN [@ EXCEPT !.pc = "returned",
                           !.result = ReturnedVerdict(c_unique[i].doi,
                                          c_cache[CacheKey(c_unique[i].doi)])]
            ELSE [@ EXCEPT !.pc = "running"]]
    /\ UNCHANGED <<c_pc, c_later, c_unique, c_workers, c_max, c_cache, c_cr_cache,
                   c_writes, c_done, c_rows, c_df, c_df_before, c_lookups, c_others>>

\* a worker makes one turn of the loop of lines 35 to 96
c_Attempt(i, head, get) ==
    /\ c_pc = "validating"
    /\ i \in 1..Len(c_tasks)
    /\ c_tasks[i].pc = "running"
    /\ c_tasks[i].attempt < c_max
    /\ LET requests == c_tasks[i].requests + HeadRequests(head, get)
                                           + GetRequests(head, get)
           final == FinalResponse(head, get)
       IN  IF Retried(final, c_tasks[i].attempt, c_max)
           THEN /\ c_tasks' = [c_tasks EXCEPT ![i].attempt = @ + 1,
                                              ![i].requests = requests]
                /\ UNCHANGED <<c_cache, c_writes>>
           ELSE /\ c_tasks' =
                     [c_tasks EXCEPT ![i].pc = "returned",
                                     ![i].requests = requests,
                                     ![i].result =
                                         ReturnedVerdict(c_unique[i].doi,
                                             CacheEntry(AttemptVerdict(final), requests))]
                /\ c_cache' = Stored(c_cache, CacheKey(c_unique[i].doi),
                                     AttemptVerdict(final), requests)
                /\ c_writes' = Append(c_writes,
                                   CacheWrite(c_cache, CacheKey(c_unique[i].doi), i))
    /\ UNCHANGED <<c_pc, c_later, c_unique, c_workers, c_max, c_cr_cache, c_done,
                   c_rows, c_df, c_df_before, c_lookups, c_others>>

\* a worker finds the loop over: line 98
c_Exhausted(i) ==
    /\ c_pc = "validating"
    /\ i \in 1..Len(c_tasks)
    /\ c_tasks[i].pc = "running"
    /\ c_tasks[i].attempt >= c_max
    /\ c_tasks' = [c_tasks EXCEPT ![i].pc = "returned",
                                  ![i].result =
                                      ReturnedVerdict(c_unique[i].doi,
                                          CacheEntry(RetriesExhausted, 0))]
    /\ c_cache' = Stored(c_cache, CacheKey(c_unique[i].doi), RetriesExhausted, 0)
    /\ c_writes' = Append(c_writes, CacheWrite(c_cache, CacheKey(c_unique[i].doi), i))
    /\ UNCHANGED <<c_pc, c_later, c_unique, c_workers, c_max, c_cr_cache, c_done,
                   c_rows, c_df, c_df_before, c_lookups, c_others>>

\* as_completed gives the main thread a future that has returned
c_Collect(i) ==
    /\ c_pc = "validating"
    /\ i \in 1..Len(c_tasks)
    /\ c_tasks[i].pc = "returned"
    /\ c_tasks' = [c_tasks EXCEPT ![i].pc = "collected"]
    /\ c_done' = Append(c_done, c_tasks[i].result)
    /\ UNCHANGED <<c_pc, c_later, c_unique, c_workers, c_max, c_cache, c_cr_cache,
                   c_writes, c_rows, c_df, c_df_before, c_lookups, c_others>>

\* every future is collected: lines 439 to 485
c_Finish(include_crossref, validate_title_match, answers) ==
    /\ c_pc = "validating"
    /\ \A i \in 1..Len(c_tasks) : c_tasks[i].pc = "collected"
    /\ c_pc' = "finished"
    /\ c_rows' = Reconnected(c_done, c_unique)
    /\ IF include_crossref
       THEN /\ c_cr_cache' = TitlesAfter(c_rows', answers, c_cr_cache, Len(c_rows'))
            /\ c_lookups' = Cardinality(DOMAIN c_cr_cache' \ DOMAIN c_cr_cache)
            /\ c_df' = StoredTable(to_dataframe(
                           CrossrefRows(c_rows', answers, c_cr_cache,
                                        validate_title_match, DefaultThreshold)))
       ELSE /\ c_df' = StoredTable(to_dataframe(c_rows'))
            /\ UNCHANGED <<c_cr_cache, c_lookups>>
    /\ UNCHANGED <<c_later, c_unique, c_workers, c_max, c_tasks, c_cache, c_writes,
                   c_done, c_df_before, c_others>>

c_Next ==
    \/ \E records \in RunInputs, workers \in 1..MaxWorkers,
          max_retries \in RunRetries : c_Run(records, workers, max_retries)
    \/ \E i \in 1..MaxRecords : c_Start(i)
    \/ \E i \in 1..MaxRecords, answer \in RunAnswers : c_Attempt(i, answer[1], answer[2])
    \/ \E i \in 1..MaxRecords : c_Exhausted(i)
    \/ \E i \in 1..MaxRecords : c_Collect(i)
    \/ \E include_crossref \in BOOLEAN, validate_title_match \in BOOLEAN,
          answers \in [1..Len(c_done) -> RunTitles] :
           c_Finish(include_crossref, validate_title_match, answers)

-----------------------------------------------------------------------------
(* Driver of the Figshare loop: after the PDFs and the pasted text, the     *)
(* selected ids are visited one by one, each with what Figshare answers.    *)

MaxIds == 3
MaxFound == 2

\* fig_ids: the selected ids, in the order of the list
FigshareSelections ==
    {ids \in UNION {[1..n -> 1..MaxIds] : n \in 0..MaxIds} :
        \A j, k \in 1..Len(ids) : j < k => ids[j] < ids[k]}

\* all_dois_info before the loop: nothing, or a record of a PDF
EarlierRecords == {<<>>, <<SourceRecord(0, 0)>>}

\* the answers: no detail, no PDF, a download or an extraction that raises,
\* and a PDF with none to MaxFound DOIs
FigshareAnswers ==
    {FigshareAnswer(FALSE, FALSE, "", 0), FigshareAnswer(TRUE, FALSE, "", 0),
     FigshareAnswer(TRUE, TRUE, "HTTPError", 0),
     FigshareAnswer(TRUE, TRUE, "PdfReadError", 0)} \cup
    {FigshareAnswer(TRUE, TRUE, "", n) : n \in 0..MaxFound}

\* lines 353 to 357: if fig_ids
h_Begin(ids, earlier) ==
    /\ h_pc = "idle"
    /\ h_pc' = IF ids = <<>> THEN "done" ELSE "looping"
    /\ h_ids' = ids
    /\ h_all' = earlier
    /\ h_before' = earlier
    /\ UNCHANGED <<h_i, h_visited, h_last, h_others>>

\* one iteration: lines 357 to 388
h_Visit(answer) ==
    /\ h_pc = "looping"
    /\ h_i' = h_i + 1
    /\ h_visited' = Append(h_visited, h_ids[h_i + 1])
    /\ h_before' = h_all
    /\ h_all' = Collected(h_all, answer, h_ids[h_i + 1])
    /\ h_last' = answer
    /\ h_pc' = IF h_i + 1 = Len(h_ids) THEN "done" ELSE "looping"
    /\ UNCHANGED <<h_ids, h_others>>

h_Next ==
    \/ \E ids \in FigshareSelections, earlier \in EarlierRecords : h_Begin(ids, earlier)
    \/ \E answer \in FigshareAnswers : h_Visit(answer)

-----------------------------------------------------------------------------
(* Specifications: each driver runs alone, the others' variables at rest.  *)

\* Nothing is typed in yet, no source is read, nothing is computed.
Init ==
    /\ phase = "input"
    /\ cur_text = <<>>
    /\ typed = 0
    /\ sources = 0
    /\ found = <<>>
    /\ harvest_out = <<>>
    /\ harvest_uniq = <<>>
    /\ all_dois_info = <<>>
    /\ unique_dois = <<>>
    /\ n_pc = "input"
    /\ n_text = <<>>
    /\ n_once = <<>>
    /\ n_twice = <<>>
    /\ r_pc = "input"
    /\ r_text = <<>>
    /\ r_typed = 0
    /\ r_min = min_lines_after_default
    /\ r_result = <<<<>>, NoLine, NoLine>>
    /\ t_pc = "input"
    /\ t_a = <<>>
    /\ t_b = <<>>
    /\ t_na = 0
    /\ t_nb = 0
    /\ t_score = NoScore
    /\ t_score_norm = NoScore
    /\ l_pc = "input"
    /\ l_score = NoScore
    /\ l_threshold = DefaultThreshold
    /\ l_label = "unknown"
    /\ s_pc = "input"
    /\ s_lines = <<>>
    /\ s_doi = <<>>
    /\ s_anchor = <<>>
    /\ s_before = before_default
    /\ s_after = after_default
    /\ s_cands = <<>>
    /\ s_line = None
    /\ s_result = Returned(<<>>, None, 0)
    /\ e_pc = "input"
    /\ e_ref = <<>>
    /\ e_typed = 0
    /\ e_style = "APA 7"
    /\ e_title = <<>>
    /\ e_calls = <<>>
    /\ b_pc = "input"
    /\ b_ref = <<>>
    /\ b_typed = 0
    /\ b_title = None
    /\ g_pc = "input"
    /\ g_text = <<>>
    /\ g_typed = 0
    /\ g_lines = <<>>
    /\ p_pc = "input"
    /\ p_text = <<>>
    /\ p_extraction = <<>>
    /\ p_harvest = <<>>
    /\ w_pc = "input"
    /\ w_rows = <<>>
    /\ w_include = FALSE
    /\ w_validate = FALSE
    /\ w_threshold = DefaultThreshold
    /\ w_report = NoReport
    /\ f_pc = "input"
    /\ f_seq = <<0, 1>>
    /\ f_jacc = <<0, 1>>
    /\ f_blend = <<0, 1>>
    /\ v_pc = "idle"
    /\ v_later = FALSE
    /\ v_doi = <<>>
    /\ v_max = 0
    /\ v_attempt = 0
    /\ v_heads = 0
    /\ v_gets = 0
    /\ v_last = <<NotAsked, NotAsked>>
    /\ v_hit = FALSE
    /\ v_result = NoResult
    /\ v_cache = EmptyCache
    /\ v_before = EmptyCache
    /\ c_pc = "idle"
    /\ c_later = FALSE
    /\ c_unique = <<>>
    /\ c_workers = 1
    /\ c_max = 0
    /\ c_tasks = <<>>
    /\ c_cache = EmptyCache
    /\ c_cr_cache = EmptyTitles
    /\ c_writes = <<>>
    /\ c_done = <<>>
    /\ c_rows = <<>>
    /\ c_df = NoTable
    /\ c_df_before = NoTable
    /\ c_lookups = 0
    /\ h_pc = "idle"
    /\ h_ids = <<>>
    /\ h_i = 0
    /\ h_visited = <<>>
    /\ h_all = <<>>
    /\ h_before = <<>>
    /\ h_last = FigshareAnswer(TRUE, TRUE, "", 0)

\* the extraction run
Spec == Init /\ [][x_Next]_vars

\* normalize_text
SpecNormalize == Init /\ [][n_Next]_vars

\* slice_references_section
SpecReferences == Init /\ [][r_Next]_vars

\* title_match_score
SpecTitle == Init /\ [][t_Next]_vars

\* title_match_label
SpecLabel == Init /\ [][l_Next]_vars

\* the reference of a DOI
SpecSelect == Init /\ [][s_Next]_vars

\* extract_title_by_style
SpecStyle == Init /\ [][e_Next]_vars

\* extract_bibliographic_title
SpecBib == Init /\ [][b_Next]_vars

\* extract_reference_lines
SpecLines == Init /\ [][g_Next]_vars

\* normalize_text_for_doi_extraction and _normalize_for_doi_harvest
SpecRepair == Init /\ [][p_Next]_vars

\* the rows of a run
SpecRows == Init /\ [][w_Next]_vars

\* the blend of title_match_score
SpecBlend == Init /\ [][f_Next]_vars

\* validate_doi_http; a request comes back or raises within its timeout and
\* the pauses between attempts end, so an attempt that can be made is made
SpecValidate ==
    Init /\ [][v_Next]_vars
         /\ WF_vars(\E head \in HeadAnswers, get \in GetAnswers \cup {NotAsked} :
                        v_Attempt(head, get))

SpecRun == Init /\ [][c_Next]_vars

SpecFigshare ==
    Init /\ [][h_Next]_vars
         /\ WF_vars(\E answer \in FigshareAnswers : h_Visit(answer))

-----------------------------------------------------------------------------
(* Claims *)

Range(s) == {s[i] : i \in 1..Len(s)}

NoWhitespace(doi) == \A k \in 1..Len(doi) : doi[k] \notin Space

\* how many matches the ordered patterns find in the text that is scanned
NumCandidates(txt) ==
    LET t == normalize_text(normalize_text_for_doi_extraction(txt))
        n[idx \in 0..NumPatterns] ==
            IF idx = 0 THEN 0 ELSE n[idx - 1] + Len(FindIter(idx, t, 1))
    IN  n[NumPatterns]

\* C1: every record either extractor returns (the scan's, the harvest's, and
\* so every record collected from the sources) has a doi that passes
\* is_valid_doi_format and holds no whitespace.
C1_RecordsAreValid ==
    \A r \in Range(found) \cup Range(harvest_uniq) \cup Range(all_dois_info) :
        is_valid_doi_format(r.doi) /\ NoWhitespace(r.doi)

\* a scan that returned a record and dropped another candidate
C1_Witness ==
    /\ phase = "scanned"
    /\ Len(found) >= 1
    /\ NumCandidates(cur_text) > Len(found)

LowerDois(recs) == {lower(r.doi) : r \in Range(recs)}

\* `result` keeps, of `input`, one record per lowercased DOI, the one with the
\* smallest position, in ascending order of position
IsDeduplicationOf(result, input) ==
    /\ LowerDois(result) = LowerDois(input)
    /\ \A i, j \in 1..Len(result) : i < j =>
           /\ lower(result[i].doi) # lower(result[j].doi)
           /\ result[i].position <= result[j].position
    /\ \A r \in Range(result) :
           /\ r \in Range(input)
           /\ \A d \in Range(input) :
                  lower(d.doi) = lower(r.doi) => r.position <= d.position

\* C2: the deduplication step of extract_dois_robust and the merge
\* _dedupe_dois each keep exactly one record per lowercased DOI of their
\* input, one of smallest position, in ascending order of position.
C2_Deduplication ==
    /\ phase = "harvested" => IsDeduplicationOf(harvest_uniq, harvest_out)
    /\ phase = "deduped" => IsDeduplicationOf(unique_dois, all_dois_info)

\* a merge that dropped a record which came first in the list but later in
\* its text
C2_Witness ==
    /\ phase = "deduped"
    /\ \E i, j \in 1..Len(all_dois_info) :
           /\ i < j
           /\ lower(all_dois_info[i].doi) = lower(all_dois_info[j].doi)
           /\ all_dois_info[j].position < all_dois_info[i].position
           /\ all_dois_info[i] \notin Range(unique_dois)

\* C3: the records the pattern extractor returns for one text hold no two
\* DOIs that are equal ignoring case.
C3_NoDuplicateDois ==
    phase = "scanned" =>
        \A i, j \in 1..Len(found) :
            i < j => lower(found[i].doi) # lower(found[j].doi)

\* the text without its character at i
Without(txt, i) == Slice(txt, 1, i) \o Slice(txt, i + 1, Len(txt) + 1)

\* the places where a line break stands right before a "." inside what is,
\* without the break, one well-formed DOI and nothing else
BreaksBeforeDot(txt) ==
    {i \in 1..Len(txt) :
        /\ txt[i] = NL
        /\ At(txt, i + 1) = "."
        /\ NoWhitespace(Without(txt, i))
        /\ is_valid_doi_format(Without(txt, i))
        /\ clean_doi(Without(txt, i)) = Without(txt, i)
        /\ RegistrantEnd(txt, 1) # 0 /\ RegistrantEnd(txt, 1) < i}

\* C5: a DOI whose suffix is broken by a line break right before a "." is
\* returned as one record whose doi is the whole unbroken DOI.
C5_BrokenDoiRecovered ==
    \A i \in BreaksBeforeDot(cur_text) :
        /\ phase = "scanned" =>
               Len(found) = 1 /\ found[1].doi = Without(cur_text, i)
        /\ phase = "harvested" =>
               Len(harvest_uniq) = 1 /\ harvest_uniq[1].doi = Without(cur_text, i)

\* C4: normalize_text is idempotent, and yields the empty text for an empty
\* or absent one.
C4_Idempotent ==
    n_pc = "done" =>
        /\ n_twice = n_once
        /\ (n_text = None \/ n_text = <<>>) => n_once = <<>>

\* the lines of `lines`, numbered from 0 as the code numbers them, that the
\* heading pattern matches, once trimmed
HeadingLines(lines) ==
    {i \in 0..(Len(lines) - 1) : REF_START(strip(lines[i + 1]))}

\* the lines after `start` that the terminator pattern matches, once trimmed,
\* and that lie at least `m` lines after it
TerminatorLines(lines, start, m) ==
    {j \in (start + 1)..(Len(lines) - 1) :
        REF_END(strip(lines[j + 1])) /\ j - start >= m}

Least(S) == CHOOSE x \in S : \A y \in S : x <= y

\* where a section that starts at `start` ends, by the rule of min_lines_after
SectionEnd(lines, start, m) ==
    LET far == TerminatorLines(lines, start, m)
    IN  IF far = {} THEN Len(lines) ELSE Least(far)

\* the trimmed text of the lines [a, b)
SectionText(lines, a, b) ==
    strip(join(<<NL>>, [k \in 1..(b - a) |-> lines[a + k]]))

\* C6: slice_references_section reports "not found" (the full text unchanged,
\* start and end both None) exactly when no line matches the heading pattern
\* or the located section's text has fewer than 250 characters; otherwise it
\* returns the section's text with start the first heading line and the
\* section being the lines [start, end).
C6_NotFoundExactly ==
    r_pc = "done" =>
        LET lines == splitlines(r_text)
            heads == HeadingLines(lines)
            top == Least(heads)
            located == SectionText(lines, top, SectionEnd(lines, top, r_min))
        IN  IF heads = {} \/ Len(located) < 250
            THEN r_result = <<r_text, NoLine, NoLine>>
            ELSE /\ r_result[2] = top
                 /\ r_result[3] \in (top + 1)..Len(lines)
                 /\ r_result[1] = SectionText(lines, r_result[2], r_result[3])

\* a document with a heading whose section is too short: not found
C6_Witness ==
    /\ r_pc = "done"
    /\ HeadingLines(splitlines(r_text)) # {}
    /\ r_result = <<r_text, NoLine, NoLine>>

\* C7: the end of a located section is the first line after the heading that
\* matches the terminator pattern at least min_lines_after lines after it
\* (nearer terminators are passed over), and the number of lines when there
\* is no such line.
C7_TerminatorRule ==
    (r_pc = "done" /\ r_result[2] # NoLine) =>
        LET lines == splitlines(r_text)
            far == TerminatorLines(lines, r_result[2], r_min)
        IN  /\ far = {} => r_result[3] = Len(lines)
            /\ far # {} => r_result[3] \in far
                           /\ \A j \in far : r_result[3] <= j

\* with the default of 12, a terminator too near the heading was passed over
\* and a later one ended the section
C7_Witness ==
    /\ r_pc = "done"
    /\ r_min = 12
    /\ r_result[2] # NoLine
    /\ r_result[3] < Len(splitlines(r_text))
    /\ \E j \in TerminatorLines(splitlines(r_text), r_result[2], 1) :
           j < r_result[3]

\* C8: title_match_label returns one of match, mismatch and unknown: unknown
\* exactly when there is no score, and otherwise match exactly when the
\* score is no less than the threshold.
C8_LabelRule ==
    l_pc = "done" =>
        /\ l_label \in {"match", "mismatch", "unknown"}
        /\ l_label = "unknown" <=> l_score = NoScore
        /\ l_score # NoScore => (l_label = "match" <=> l_score >= l_threshold)

\* the score 0.78 labelled against the threshold 0.78: a match
C8_Witness ==
    /\ l_pc = "done"
    /\ l_threshold = 7800
    /\ l_score = 7800
    /\ l_label = "match"

\* a title is given and something is left of it once normalised
Usable(t) == t # None /\ normalize_title(t) # <<>>

\* C9: title_match_score returns None exactly when one of the titles is
\* absent, empty, or empty once normalised, and a number from 0 to 1
\* otherwise.
C9_ScoreRange ==
    t_pc = "done" =>
        IF Usable(t_a) /\ Usable(t_b)
        THEN t_score \in 0..10000
        ELSE t_score = NoScore

\* a title of punctuation only: given, yet nothing is left of it
C9_Witness ==
    /\ t_pc = "done"
    /\ t_a # None /\ t_a # <<>> /\ normalize_title(t_a) = <<>>
    /\ Usable(t_b)
    /\ t_score = NoScore

\* C10: two titles with the same, non-empty, normalised form score 1.0, and
\* any two titles score what their normalised forms score.
C10_NormalizedOnly ==
    t_pc = "done" =>
        /\ (Usable(t_a) /\ Usable(t_b)
               /\ normalize_title(t_a) = normalize_title(t_b))
              => t_score = 10000
        /\ t_score = t_score_norm

\* two titles that differ as texts and not once normalised
C10_Witness ==
    /\ t_pc = "done"
    /\ Usable(t_a) /\ Usable(t_b)
    /\ t_a # t_b
    /\ normalize_title(t_a) = normalize_title(t_b)
    /\ t_score = 10000

\* C11: whenever some line holds the DOI, the call of
\* pick_best_reference_block_for_doi returns, raising nothing, a triple with
\* a block that is not empty, whatever the anchor title; when no line holds
\* the DOI it returns ("", None, 0.0).
C11_ReturnsNonEmptyBlock ==
    s_pc = "picked" =>
        IF find_reference_candidates_for_doi(s_doi, s_lines) # <<>>
        THEN s_result.raised = "" /\ s_result.block # <<>>
        ELSE s_result = Returned(<<>>, None, 0)

\* the candidates of the picked call, their blocks and their titles
PickedBlocks ==
    BlocksOf(s_lines, find_reference_candidates_for_doi(s_doi, s_lines),
             s_before, s_after)
PickedTitle(k) == extract_bibliographic_title(PickedBlocks[k])

\* the candidates whose title passes the plausibility filter
Plausible ==
    {k \in 1..Len(PickedBlocks) : _is_plausible_title_for_selection(PickedTitle(k))}

\* whether the call was given an anchor title
Anchored == normalize_text(OrEmpty(s_anchor)) # <<>>

\* the score of a plausible candidate: the title match score against the
\* anchor (0.0 when there is none), or min(1.0, len(title) / 200)
CandidateScore(k) ==
    IF Anchored
    THEN Max(0, title_match_score(PickedTitle(k), normalize_text(OrEmpty(s_anchor))))
    ELSE LengthScore(PickedTitle(k))

\* C12: with an anchor title and two lines that both hold the DOI, only one
\* of them giving a plausible title that scores 0.8 or more against the
\* anchor, the call returns that line's block and title, with a
\* selection_score of 0.8 or more.
C12_AnchorSelectsMatchingLine ==
    (s_pc = "picked" /\ Anchored /\ Len(s_lines) = 2 /\ Len(PickedBlocks) = 2) =>
        \A k \in Plausible :
            (/\ CandidateScore(k) >= 8000
             /\ \A j \in Plausible \ {k} : CandidateScore(j) < 8000)
            => /\ s_result.raised = ""
               /\ s_result.block = PickedBlocks[k]
               /\ s_result.title = PickedTitle(k)
               /\ s_result.score >= 8000

\* the greatest score of a plausible candidate, 0 when none is plausible
BestScore ==
    IF Plausible = {} THEN 0
    ELSE CHOOSE s \in {CandidateScore(k) : k \in Plausible} :
             \A k \in Plausible : CandidateScore(k) <= s

\* C13: the selection_score is the greatest score of a plausible candidate
\* and 0.0 when no candidate is plausible; it lies in [0, 1]; when it is
\* greater than 0 the block and the title returned are those of the first
\* candidate with that score, and the title is plausible; when it is 0.0 the
\* block is that of the first line that holds the DOI.
C13_SelectionScoreIsMaximum ==
    (s_pc = "picked" /\ PickedBlocks # <<>>) =>
        /\ s_result.raised = ""
        /\ s_result.score = BestScore
        /\ s_result.score >= 0 /\ s_result.score <= 10000
        /\ s_result.score > 0 =>
               LET k == LeastOf({j \in Plausible : CandidateScore(j) = BestScore})
               IN  /\ s_result.block = PickedBlocks[k]
                   /\ s_result.title = PickedTitle(k)
                   /\ _is_plausible_title_for_selection(s_result.title)
        /\ s_result.score = 0 => s_result.block = PickedBlocks[1]

\* the title the automatic mode is to give: that of the first of the styles
\* APA 7, IEEE, MLA, Vancouver, Chicago whose title has more than 10
\* characters, the empty text when there is none
FirstLongTitle ==
    LET order == <<"APA 7", "IEEE", "MLA", "Vancouver", "Chicago">>
        long == {k \in 1..5 : Len(extract_title_by_style(e_ref, order[k])) > 10}
    IN  IF long = {} THEN <<>>
        ELSE extract_title_by_style(e_ref, order[LeastOf(long)])

\* s is the beginning of t
IsPrefix(s, t) == Len(s) <= Len(t) /\ s = SubSeq(t, 1, Len(s))

\* C14: under a style that is none of the five named ones the call tries the
\* styles in the order APA 7, IEEE, MLA, Vancouver, Chicago and returns the
\* title of the first whose title is longer than 10 characters, the empty
\* text when there is none, running each style's branch at most once; under
\* a named style it runs no other style's branch.
C14_AutoCascade ==
    e_pc = "done" =>
        IF e_style \in NamedStyles
        THEN \A k \in 1..Len(e_calls) : e_calls[k] = e_style
        ELSE /\ e_title = FirstLongTitle
             /\ IsPrefix(e_calls, <<"APA 7", "IEEE", "MLA", "Vancouver", "Chicago">>)

\* C14, its case: the automatic mode passes over a style whose title has 10
\* characters or fewer and returns the longer title of a later style.
C14_Witness ==
    /\ e_pc = "done"
    /\ e_style \notin NamedStyles
    /\ Len(e_title) > 10
    /\ Len(e_calls) >= 2
    /\ \E k \in 1..(Len(e_calls) - 1) :
           /\ extract_title_by_style(e_ref, e_calls[k]) # <<>>
           /\ Len(extract_title_by_style(e_ref, e_calls[k])) = 10

\* a URL in the title, as the clean-up looks for it: https?://\S+
HasUrl(title) == \E i \in 1..Len(title) : UrlEndExact(title, i) # 0

\* a doi: token in the title, as the clean-up looks for it: doi:\s*\S+,
\* ignoring case
HasDoiToken(title) == \E i \in 1..Len(title) : DoiPrefixEnd(title, i) # 0

\* C15: no title that extract_title_by_style returns, under any style and
\* also from inside quotation marks, and no title that
\* extract_bibliographic_title returns holds a URL or a doi: token.
C15_NoLinksInTitles ==
    /\ e_pc = "done" => ~HasUrl(e_title) /\ ~HasDoiToken(e_title)
    /\ (b_pc = "done" /\ b_title # None) =>
           ~HasUrl(b_title) /\ ~HasDoiToken(b_title)

\* C16: every title that extract_bibliographic_title returns has between 8
\* and 300 characters, whichever rule gave it.
C16_TitleLengthBounded ==
    (b_pc = "done" /\ b_title # None /\ b_title # <<>>) =>
        Len(b_title) >= 8 /\ Len(b_title) <= 300

\* the trimmed lines of the section, as normalize_text gives it
SectionLines ==
    LET lines == splitlines(normalize_text(g_text))
    IN  [k \in 1..Len(lines) |-> strip(lines[k])]

\* the k-th least element of a set of numbers
NthOf(S, k) == CHOOSE i \in S : Cardinality({j \in S : j < i}) = k - 1

FoundIndices == {s_cands[k][1] : k \in 1..Len(s_cands)}

\* the indices are strictly ascending
AscendingIndices ==
    \A j, k \in 1..Len(s_cands) : j < k => s_cands[j][1] < s_cands[k][1]

\* the line holds the DOI, both lower-cased and without whitespace
HoldsDoi(ln) == Contains(RemoveSpace(lower(ln)), RemoveSpace(lower(s_doi)))

\* find_reference_line_for_doi returned the line of the first pair, or None
FirstPairReturned ==
    s_line = IF s_cands = <<>> THEN None ELSE s_cands[1][2]

\* C18, as stated: the pairs found are, in strictly ascending index order,
\* those of the lines that hold the DOI as they stand in the list, both
\* lower-cased and without whitespace; a DOI that is empty without its
\* whitespace finds none; the line returned is that of the first pair, or
\* None.
C18_CandidatesOfLinesAsGiven ==
    s_pc = "found" =>
        IF RemoveSpace(s_doi) = <<>> THEN s_cands = <<>> /\ s_line = None
        ELSE /\ AscendingIndices
             /\ FoundIndices =
                    {i - 1 : i \in {j \in 1..Len(s_lines) : HoldsDoi(s_lines[j])}}
             /\ FirstPairReturned

\* C18, amended: the pairs found are, in strictly ascending index order,
\* those of the lines that hold the DOI once repaired and normalised, both
\* lower-cased and without whitespace, each pair with the repaired and
\* normalised line; a DOI that is empty without its whitespace finds none;
\* the line returned is that of the first pair, or None.
C18_CandidatesOfRepairedLines ==
    s_pc = "found" =>
        IF RemoveSpace(s_doi) = <<>> THEN s_cands = <<>> /\ s_line = None
        ELSE /\ AscendingIndices
             /\ FoundIndices =
                    {i - 1 : i \in {j \in 1..Len(s_lines) :
                                       HoldsDoi(RepairedLine(s_lines[j]))}}
             /\ \A k \in 1..Len(s_cands) :
                    s_cands[k][2] = RepairedLine(s_lines[s_cands[k][1] + 1])
             /\ FirstPairReturned

\* C18, its case: two lines are found, the second of them only once it is
\* repaired, and the first one's line is returned.
C18_Witness ==
    /\ s_pc = "found"
    /\ Len(s_cands) = 2
    /\ ~HoldsDoi(s_lines[2])
    /\ s_line = s_cands[1][2]

\* a text with no line break, form feed or soft hyphen
WellFormed(text) == \A k \in 1..Len(text) : text[k] \notin {NL, CR, FF, SHY}

\* C19: of a text with no line break, form feed or soft hyphen,
\* normalize_text_for_doi_extraction and _normalize_for_doi_harvest return
\* the same string.
C19_RepairVariantsAgree ==
    (p_pc = "done" /\ WellFormed(p_text)) => p_extraction = p_harvest

\* the rows of the table that have the Crossref columns
LabelledRows == {k \in 1..Len(w_rows) : w_rows[k].crossref_columns}

BreakBetweenWords(text) ==
    \E i, j \in 1..Len(text) :
        /\ i + 1 < j
        /\ text[i] \notin Space
        /\ text[j] \notin Space
        /\ \A k \in (i + 1)..(j - 1) : text[k] \in Space
        /\ \E k \in (i + 1)..(j - 1) : text[k] = NL

\* C28: in the output of _normalize_for_doi_harvest no line break is left
\* between two characters that are no whitespace, lines of one character
\* included.
C28_NoBreakBetweenWords ==
    p_pc = "done" => ~BreakBetweenWords(p_harvest)

\* two fractions of the same value
FracEq(x, y) == x[1] * y[2] = y[1] * x[2]

\* C29: the blended value is the larger of the sequence ratio and the
\* Jaccard overlap: the mean never exceeds the larger signal, so the blend is
\* never below either signal and never above the larger one, and it rounds
\* to the same score.
C29_BlendIsLargerSignal ==
    f_pc = "done" =>
        /\ FracLeq(FracMean(f_seq, f_jacc), FracMax(f_seq, f_jacc))
        /\ FracEq(f_blend, FracMax(f_seq, f_jacc))
        /\ FracLeq(f_seq, f_blend) /\ FracLeq(f_jacc, f_blend)
        /\ FracLeq(f_blend, f_seq) \/ FracLeq(f_blend, f_jacc)
        /\ round4(f_blend) = round4(FracMax(f_seq, f_jacc))

\* C29, its case: two signals that differ, the mean strictly between them,
\* have been blended.
C29_Witness ==
    /\ f_pc = "done"
    /\ ~FracLeq(f_seq, f_jacc)
    /\ ~FracLeq(f_seq, FracMean(f_seq, f_jacc))
    /\ ~FracLeq(FracMean(f_seq, f_jacc), f_jacc)
    /\ f_jacc[1] > 0

\* C30: in the report of the table the counts of valid, invalid and
\* unverifiable DOIs add up to the total, and the counts of match, mismatch
\* and unknown add up to the number of rows that have a title-match label.
C30_ReportCountsAddUp ==
    w_pc = "exported" =>
        /\ w_report.valid_count + w_report.invalid_count + w_report.unknown_count
               = w_report.total
        /\ w_report.match_count + w_report.mismatch_count + w_report.t_unknown_count
               = Cardinality(LabelledRows)

\* the entry the cache holds for the DOI of the call
EntryOfCall == v_cache[CacheKey(v_doi)]

\* what holds of a call of validate_doi_http at every moment
VerdictRules ==
    /\ v_heads <= v_max /\ v_gets <= v_heads
    /\ v_pc = "running" => v_attempt = v_heads /\ v_attempt < v_max
    /\ v_pc = "returned" =>
           /\ v_result.category \in {"valid", "invalid", "unknown"}
           /\ v_result.ok <=> v_result.category = "valid"
           /\ ~v_hit =>
                  /\ CacheKey(v_doi) \in DOMAIN v_cache
                  /\ v_result = ReturnedVerdict(v_doi, EntryOfCall)
           /\ (~v_hit /\ v_max = 0) =>
                  v_heads = 0 /\ v_gets = 0 /\ v_result.category = "unknown"

\* C26: a call of validate_doi_http makes at most max_retries attempts, each
\* of one HEAD and at most one GET after it, and then returns: a call that
\* runs always comes to return; the verdict's category is valid, invalid or
\* unknown and ok is true exactly for valid; a call that did not find its
\* key in the cache has stored the verdict it returns under the lowercased
\* DOI; with max_retries = 0 no request is made and the verdict is unknown.
C26_TerminatesWithVerdict ==
    /\ []VerdictRules
    /\ (v_pc = "running") ~> (v_pc = "returned")

\* C26, its case: a call has returned after its last attempt, with two
\* HEAD requests and a GET request made, and stored its verdict.
C26_Witness ==
    /\ v_pc = "returned"
    /\ ~v_hit
    /\ v_max = 2 /\ v_heads = 2 /\ v_gets = 1
    /\ v_result.category = "unknown"
    /\ EntryOfCall.category = "unknown"

\* C22: a call made when the cache holds a verdict for the lowercased DOI
\* returns at once that verdict (ok, category, status, message, time) with
\* the DOI as the caller spells it, makes no HEAD or GET request and leaves
\* the cache as it was, whatever the stored verdict is.
C22_CacheHit ==
    (v_pc # "idle" /\ lower(v_doi) \in DOMAIN v_before) =>
        /\ v_pc = "returned"
        /\ v_result = ReturnedVerdict(v_doi, v_before[lower(v_doi)])
        /\ v_result.doi = v_doi
        /\ v_heads = 0 /\ v_gets = 0
        /\ v_cache = v_before

\* C22, its case: a later call, spelled in capitals, has returned the
\* unknown verdict that a timeout left in the cache under the lowercased DOI.
C22_Witness ==
    /\ v_pc = "returned"
    /\ v_later
    /\ v_doi # lower(v_doi)
    /\ lower(v_doi) \in DOMAIN v_before
    /\ v_result.category = "unknown"
    /\ v_result.message = "Timeout"
    /\ v_result.time > 0

\* the final answer of the last attempt: the GET's when the HEAD came back
\* with 400, 403, 404, 405 or a status from 500 on, else the HEAD's
FinalOfLast ==
    LET head == v_last[1]
        get == v_last[2]
    IN  IF head.raised = "" /\ (head.status \in {400, 403, 404, 405} \/ head.status >= 500)
        THEN get ELSE head

\* the call has returned the category with the status
ReturnedWith(category, status) ==
    /\ v_pc = "returned"
    /\ v_result.category = category
    /\ v_result.status = status

\* C27: after an attempt, a final status of 2xx or 3xx has returned valid
\* and one of 404 or 400 has returned invalid, at once, whatever attempts
\* remain; any other final status, a timeout, a connection error or another
\* exception is retried while attempts remain and returns unknown on the
\* last attempt only; invalid comes from a final status of 404 or 400 alone.
C27_ClassifiedByFinalStatus ==
    v_heads > 0 =>
        LET f == FinalOfLast
            resolved == f.raised = "" /\ 200 <= f.status /\ f.status < 400
            notfound == f.raised = "" /\ f.status \in {404, 400}
        IN  /\ resolved => ReturnedWith("valid", f.status)
            /\ notfound => ReturnedWith("invalid", f.status)
            /\ (~resolved /\ ~notfound) =>
                   IF v_heads < v_max THEN v_pc = "running" /\ v_attempt = v_heads
                   ELSE ReturnedWith("unknown", f.status)
            /\ (v_pc = "returned" /\ v_result.category = "invalid") => notfound

\* C27, its case: a HEAD of 404 confirmed by the GET has returned invalid
\* after the first of two attempts.
C27_Witness ==
    /\ v_pc = "returned"
    /\ v_max = 2 /\ v_heads = 1 /\ v_gets = 1
    /\ v_last = <<Response(404), Response(404)>>
    /\ v_result.category = "invalid"


\* the futures of the run have all returned
AllReturned ==
    /\ c_pc \in {"validating", "finished"}
    /\ \A i \in 1..Len(c_tasks) : c_tasks[i].pc \in {"returned", "collected"}

\* the lowercased DOIs of the unique records
UniqueKeys == {lower(c_unique[i].doi) : i \in 1..Len(c_unique)}

\* C21: in a run, with any number of workers and however their steps
\* interleave, no cache key is written twice or by two workers, no write
\* replaces an entry that was there, and when every worker has finished the
\* cache holds, for each unique DOI, one entry under its own lowercased key:
\* the verdict its worker returned.
C21_OneWriterPerKey ==
    /\ \A m, n \in 1..Len(c_writes) :
           c_writes[m].key = c_writes[n].key =>
               m = n /\ c_writes[m].task = c_writes[n].task
    /\ \A m \in 1..Len(c_writes) : ~c_writes[m].over
    /\ AllReturned =>
           /\ Cardinality(UniqueKeys) = Len(c_unique)
           /\ \A i \in 1..Len(c_unique) :
                  /\ lower(c_unique[i].doi) \in DOMAIN c_cache
                  /\ c_tasks[i].result =
                         ReturnedVerdict(c_unique[i].doi,
                                         c_cache[lower(c_unique[i].doi)])

\* C21, its case: two workers ran at once on two DOIs, the second future
\* wrote its verdict before the first, and both have returned.
C21_Witness ==
    /\ AllReturned
    /\ c_workers = 2
    /\ Len(c_writes) = 2
    /\ c_writes[1].task = 2
    /\ c_writes[2].task = 1
    /\ c_tasks[1].requests > 1

\* C23: a run whose merged, deduplicated records are none stops: it stays in
\* the stopped state with no future submitted, no write to the DOI cache, no
\* Crossref lookup, and the table stored before the run still stored.
C23_EmptyRunStops ==
    (c_pc # "idle" /\ c_unique = <<>>) =>
        /\ c_pc = "stopped"
        /\ c_tasks = <<>>
        /\ c_done = <<>>
        /\ c_writes = <<>>
        /\ c_lookups = 0
        /\ c_df = c_df_before

\* C23, its case: a later run found no DOI and stopped, and the table of the
\* run before, which has rows and Crossref titles, is still the stored one.
C23_Witness ==
    /\ c_pc = "stopped"
    /\ c_later
    /\ c_unique = <<>>
    /\ c_df.stored
    /\ Len(c_df.rows) = 2
    /\ c_df.rows[1].crossref_columns

\* the auxiliary fields of a row are those of the record
SameAuxiliary(r, d) ==
    /\ r.Archivo = d.file_name
    /\ r.Pagina = d.page
    /\ r.Patron = d.pattern
    /\ r.Contexto = d.context
    /\ r.Referencia = d.reference_line
    /\ r.TituloBibliografia = d.bib_title

\* the table has one row for each unique record, with its auxiliary fields
OneRowPerUniqueDoi(table) ==
    /\ Len(table) = Len(c_unique)
    /\ \A i \in 1..Len(c_unique) :
           \E k \in 1..Len(table) :
               /\ lower(table[k].DOI) = lower(c_unique[i].doi)
               /\ SameAuxiliary(table[k], c_unique[i])
               /\ \A j \in 1..Len(table) :
                      lower(table[j].DOI) = lower(c_unique[i].doi) => j = k

\* C24: when the run has finished, in whatever order the futures completed,
\* the rows, and the stored table made of them, have exactly one row for each
\* unique lowercased DOI, and the file, page, pattern, context, reference line
\* and bibliographic title of a row are those of the unique record with the
\* same lowercased DOI.
C24_OneRowPerUniqueDoi ==
    c_pc = "finished" =>
        /\ OneRowPerUniqueDoi(c_rows)
        /\ OneRowPerUniqueDoi(c_df.rows)

\* C24, its case: the future submitted second completed first, and the run
\* has finished with two rows.
C24_Witness ==
    /\ c_pc = "finished"
    /\ Len(c_unique) = 2
    /\ c_done[1].doi = c_unique[2].doi
    /\ c_rows[1].Archivo = c_unique[2].file_name


\* what holds after every iteration of the loop
FailureSkipsDocument ==
    /\ h_i > 0 /\ Failed(h_last) => h_all = h_before
    /\ IsPrefix(h_before, h_all)
    /\ \A k \in 1..Len(h_all) :
           h_all[k].figshare_id # 0 => \E j \in 1..h_i : h_visited[j] = h_all[k].figshare_id
    /\ h_i <= Len(h_ids)
    /\ h_visited = SubSeq(h_ids, 1, h_i)
    /\ h_pc = "looping" => h_i < Len(h_ids)
    /\ h_pc = "done" => h_i = Len(h_ids)

\* C25: an iteration of the Figshare loop that fails (no detail, no PDF among
\* the files, or an exception from the download or the extraction) leaves
\* all_dois_info as it was, with no record of that document; the records
\* collected before are never changed; and the loop goes on, id by id in
\* their order, until every id has been visited.
C25_FailureSkipsDocument ==
    []FailureSkipsDocument /\ ((h_pc = "looping") ~> (h_pc = "done"))

\* C25, its case: the loop is over; after a document that gave its DOIs, one
\* whose download raised was visited, and then a document that gave its own.
C25_Witness ==
    /\ h_pc = "done"
    /\ h_i = 3
    /\ h_last.found = 2
    /\ h_all[1].figshare_id = 1
    /\ h_all[Len(h_all)].figshare_id = 3
    /\ \A k \in 1..Len(h_all) : h_all[k].figshare_id # 2

============================================================================
